---- MODULE Spec2Model ----
(***************************************************************************)
(* Model of the tool-calling agent loop (apo_agent.rag_agent_rollout and   *)
(* apo_litagent.RAGLitAgent.training_rollout), of the two graders          *)
(* (rag_response_grader, RAGLitAgent._calculate_reward), of the two tools  *)
(* and of the POST /query route of the LangChain service.                  *)
(*                                                                         *)
(* A text is a sequence of atoms (string pieces) plus a count of filler    *)
(* characters that match no keyword.  Substring tests of the code are      *)
(* contiguous-subsequence tests on atoms after the case conversion the     *)
(* code applies.  Queries handed to the gibberish heuristic are spelled    *)
(* with one-character atoms, so that the character-level tests of the code *)
(* (isdigit, isalnum, set(), count()) are computed as written.             *)
(*                                                                         *)
(* Scores are exact rationals held as integers in units of 1/Scale.        *)
(***************************************************************************)
EXTENDS Integers, Sequences, FiniteSets, TLC

(***************************************************************************)
(* Bounds of the model.                                                    *)
(***************************************************************************)
\* tool calls of a rollout, counted from its first, whose tool the model and
\* whose result the backend choose freely; a later call is a rag_query call,
\* alone in its response, that finds nothing or fails
MaxFreeCalls == 1
\* tool calls in one assistant message
MaxCallsPerTurn == 2
\* phrases of a graded response
MaxPhrases == 2
\* entries of a task's expected_output_contains list
MaxExpected == 2
\* tool invocations of the ReAct agent behind POST /query
MaxAgentCalls == 2
\* ingestion runs
MaxRuns == 2
\* entries in one answer of the arXiv feed
MaxDocs == 2
\* process starts after the first
MaxRestarts == 1
\* calls of one client factory in one process
MaxClientCalls == 3
\* rounds of tool calls of a rollout that runs beside another
MaxConcRounds == 2

(***************************************************************************)
(* Program constants.                                                      *)
(***************************************************************************)
max_iterations == 10

\* stop_after_attempt(3)
stop_after_attempt == 3

\* the vector size assumed for a collection without vectors configuration
ASSUMED_SIZE == 384

\* limit=4 of rag_query's search
search_limit == 4

\* arxiv_max_docs: int = 5
arxiv_max_docs == 5

\* "Returns up to 3 chunks" of the baseline prompt
advertised_chunks == 3

(***************************************************************************)
(* Texts.                                                                  *)
(***************************************************************************)
Text(atoms, pad) == [atoms |-> atoms, pad |-> pad]

EmptyText == Text(<<>>, 0)

IsPrefix(s, t) == Len(s) <= Len(t) /\ SubSeq(t, 1, Len(s)) = s

RECURSIVE SumLen(_)
SumLen(s) == IF s = <<>> THEN 0 ELSE Len(Head(s)) + SumLen(Tail(s))

\* len(text)
TextLen(t) == SumLen(t.atoms) + t.pad

UpperChars ==
  <<"A","B","C","D","E","F","G","H","I","J","K","L","M",
    "N","O","P","Q","R","S","T","U","V","W","X","Y","Z">>

LowerChars ==
  <<"a","b","c","d","e","f","g","h","i","j","k","l","m",
    "n","o","p","q","r","s","t","u","v","w","x","y","z">>

Digits == {"0","1","2","3","4","5","6","7","8","9"}

\* the atoms that str.lower() changes
LowerTable ==
  [c \in {UpperChars[i] : i \in 1..26} |-> LowerChars[CHOOSE i \in 1..26 : UpperChars[i] = c]]
  @@ ("TOOL_LOG" :> "tool_log")
  @@ ("Tool_Log" :> "tool_log")
  @@ ("ANSWER:" :> "answer:")
  @@ ("Answer:" :> "answer:")
  @@ ("RAG" :> "rag")
  @@ ("ARXIV" :> "arxiv")
  @@ ("arXiv" :> "arxiv")
  @@ ("EMPTY" :> "empty")
  @@ ("ERROR" :> "error")
  @@ ("Failed" :> "failed")
  @@ ("I " :> "i ")
  @@ ("Invalid" :> "invalid")
  @@ ("Quantum" :> "quantum")
  @@ (": No " :> ": no ")
  @@ (": No matching documents found in the knowledge base." :> ": no matching documents found in the knowledge base.")
  @@ (" API: " :> " api: ")
  @@ ("]\nID: x\nSummary: " :> "]\nid: x\nsummary: ")
  @@ ("\nLink: " :> "\nlink: ")
  @@ (": Unknown tool '" :> ": unknown tool '")
  @@ ("[DB: " :> "[db: ")

\* str.lower() on one atom
Lower(a) == IF a \in DOMAIN LowerTable THEN LowerTable[a] ELSE a

\* the atoms that str.upper() changes
UpperTable ==
  [c \in {LowerChars[i] : i \in 1..26} |-> UpperChars[CHOOSE i \in 1..26 : LowerChars[i] = c]]
  @@ ("tool_log" :> "TOOL_LOG")
  @@ ("Tool_Log" :> "TOOL_LOG")
  @@ ("answer:" :> "ANSWER:")
  @@ ("Answer:" :> "ANSWER:")
  @@ ("rag" :> "RAG")
  @@ ("arxiv" :> "ARXIV")
  @@ ("arXiv" :> "ARXIV")
  @@ ("empty" :> "EMPTY")
  @@ ("error" :> "ERROR")

\* str.upper() on one atom
Upper(a) == IF a \in DOMAIN UpperTable THEN UpperTable[a] ELSE a

LowerSeq(s) == [i \in 1..Len(s) |-> Lower(s[i])]

UpperSeq(s) == [i \in 1..Len(s) |-> Upper(s[i])]

\* kw in s, on atom sequences
Contains(kw, s) ==
  \E i \in 0..(Len(s) - Len(kw)) : \A j \in 1..Len(kw) : s[i + j] = kw[j]

\* s.count(kw) for a keyword that cannot overlap itself
CountOcc(kw, s) ==
  Cardinality({i \in 0..(Len(s) - Len(kw)) : \A j \in 1..Len(kw) : s[i + j] = kw[j]})

AnyIn(kws, s) == \E kw \in kws : Contains(kw, s)

RECURSIVE JoinPhrases(_)
JoinPhrases(ps) ==
  IF ps = <<>> THEN <<>>
  ELSE IF Len(ps) = 1 THEN ps[1]
  ELSE ps[1] \o <<" ">> \o JoinPhrases(Tail(ps))

(***************************************************************************)
(* Scores.                                                                 *)
(***************************************************************************)
RECURSIVE Fact(_)
Fact(n) == IF n <= 1 THEN 1 ELSE n * Fact(n - 1)

\* one hundredth of a point, in score units
Hundredth == Fact(MaxExpected)

Scale == 100 * Hundredth

Pts(h) == h * Hundredth

Min(a, b) == IF a <= b THEN a ELSE b

Max(a, b) == IF a >= b THEN a ELSE b

NoClamp(score) == score

\* min(max(score, 0.0), 1.0)
Clamp(score) == Min(Max(score, 0), Scale)

(***************************************************************************)
(* Task records and transcripts.                                           *)
(***************************************************************************)
\* a key that the task dict does not have
NoKey == "<absent>"

\* the task dict has no 'expected_output_contains'
NoExpected == [present |-> FALSE, list |-> <<>>]

\* task['expected_output_contains']
Expected(list) == [present |-> TRUE, list |-> list]

Task(query, expected, choice, invalid) ==
  [query |-> query, expected_output_contains |-> expected,
   intelligent_choice |-> choice, is_invalid |-> invalid]

ToolCall(id, name) == [id |-> id, name |-> name]

\* the assistant message appended after a model response; tool_calls is <<>>
\* where the code stores None
AssistantMessage(content, tool_calls) ==
  [role |-> "assistant", content |-> content, tool_calls |-> tool_calls,
   tool_call_id |-> 0, name |-> ""]

ToolResultMessageWrongId(tool_call, tool_result) ==
  [role |-> "tool", content |-> tool_result, tool_calls |-> <<>>,
   tool_call_id |-> 0, name |-> tool_call.name]

\* the tool-result message appended after a tool execution
ToolResultMessage(tool_call, tool_result) ==
  [role |-> "tool", content |-> tool_result, tool_calls |-> <<>>,
   tool_call_id |-> tool_call.id, name |-> tool_call.name]

PlainMessage(role, content) ==
  [role |-> role, content |-> content, tool_calls |-> <<>>,
   tool_call_id |-> 0, name |-> ""]

(***************************************************************************)
(* Keyword lists of the graders.                                           *)
(***************************************************************************)
ERROR_INDICATORS ==
  {<<"error">>, <<"failed">>, <<"unable to">>, <<"cannot">>, <<"empty">>}

CITATION_KEYWORDS ==
  {<<"arxiv">>, <<"paper">>, <<"source">>, <<"reference">>, <<"http">>, <<"doi">>}

HEDGING_PHRASES ==
  {<<"i ", "don't know">>, <<"i ", "cannot">>, <<"no information">>,
   <<"unable to", " find">>}

GIBBERISH_DENYLIST ==
  {<<"a","s","d","f","g","h","j","k","l">>, <<"q","w","e","r","t","y","u","i","o","p">>, <<"1","2","3","4","5","6","7","8","9">>, <<"x","y","z","a","b","c","1","2","3">>, <<"f","g","h","j","k","l","m","n","b","v","c","x","z">>}

K_xyzabc123 == <<"x","y","z","a","b","c","1","2","3">>

K_nonexistent123456 == <<"n","o","n","e","x","i","s","t","e","n","t","1","2","3","4","5","6">>

K_123 == <<"1","2","3">>

ARXIV_FIRST_KEYWORDS ==
  {<<"r","e","c","e","n","t">>, <<"l","a","t","e","s","t">>, <<"n","e","w">>, <<"n","e","w","e","s","t">>, <<"s","e","a","r","c","h"," ","a","r","x","i","v">>, <<"2","0","2","4">>, <<"2","0","2","3">>,
   <<"p","u","b","l","i","s","h","e","d"," ","i","n">>}

(***************************************************************************)
(* rag_response_grader.                                                    *)
(***************************************************************************)
\* used_rag_query / used_arxiv_search: a scan of the assistant tool calls
UsedInMessages(name, messages) ==
  \E i \in DOMAIN messages :
    /\ messages[i].role = "assistant"
    /\ \E j \in DOMAIN messages[i].tool_calls : messages[i].tool_calls[j].name = name

ToolUsageScore(messages) ==
  IF UsedInMessages("rag_query", messages) \/ UsedInMessages("arxiv_search", messages)
  THEN Pts(30) ELSE 0

has_tool_log(response) == Contains(<<"TOOL_LOG">>, UpperSeq(response.atoms))

has_answer(response) ==
  Contains(<<"ANSWER:">>, UpperSeq(response.atoms)) \/ TextLen(response) > 50

FormatScore(response) ==
  IF has_tool_log(response) /\ has_answer(response) THEN Pts(20)
  ELSE IF has_answer(response) THEN Pts(10)
  ELSE 0

has_errors(response) == AnyIn(ERROR_INDICATORS, LowerSeq(response.atoms))

CompletenessScore(response) ==
  IF ~has_errors(response) /\ TextLen(response) > 100 THEN Pts(30)
  ELSE IF TextLen(response) > 50 THEN Pts(15)
  ELSE 0

has_citations(response) == AnyIn(CITATION_KEYWORDS, LowerSeq(response.atoms))

has_content(response) == ~AnyIn(HEDGING_PHRASES, LowerSeq(response.atoms))

CitationScore(response) ==
  IF has_citations(response) /\ has_content(response) THEN Pts(20)
  ELSE IF has_content(response) THEN Pts(10)
  ELSE 0

\* found_expected: the expected phrases that occur in the lower-cased response
FoundExpected(expected, response) ==
  Cardinality({i \in DOMAIN expected :
                 Contains(LowerSeq(expected[i]), LowerSeq(response.atoms))})

\* (found_expected / len(expected)) * 0.1
ExpectedBonus(expected, response) ==
  (FoundExpected(expected, response) * Pts(10)) \div Len(expected)

QualityScore(response, task) ==
  IF /\ task.expected_output_contains.present
     /\ FoundExpected(task.expected_output_contains.list, response) > 0
  THEN Min(Pts(20),
           CitationScore(response)
           + ExpectedBonus(task.expected_output_contains.list, response))
  ELSE CitationScore(response)

rag_response_grader(rollout_result) ==
  LET messages == rollout_result.messages
      response == rollout_result.response
      task == rollout_result.task
  IN  IF TextLen(response) = 0 THEN 0
      ELSE Clamp(ToolUsageScore(messages) + FormatScore(response)
                 + CompletenessScore(response) + QualityScore(response, task))

(***************************************************************************)
(* RAGLitAgent._calculate_reward.                                          *)
(***************************************************************************)
isdigit(s) == s # <<>> /\ \A i \in DOMAIN s : s[i] \in Digits

isalnum(c) ==
  \/ c \in Digits
  \/ \E i \in 1..26 : c = LowerChars[i] \/ c = UpperChars[i]

CharSet(s) == {s[i] : i \in DOMAIN s}

\* any(gibberish_patterns), on the lower-cased query
gibberish_patterns(query_lower) ==
  \/ Len(query_lower) < 3
  \/ isdigit(query_lower)
  \/ \A i \in DOMAIN query_lower : ~isalnum(query_lower[i])
  \/ query_lower \in GIBBERISH_DENYLIST
  \/ Cardinality(CharSet(query_lower)) < 3 /\ Len(query_lower) > 5
  \/ Contains(K_xyzabc123, query_lower)
  \/ Contains(K_nonexistent123456, query_lower)
  \/ CountOcc(K_123, query_lower) > 1 /\ Len(query_lower) < 20

detected_invalid(query, task) ==
  gibberish_patterns(LowerSeq(query.atoms)) \/ task.is_invalid

InSeq(x, s) == \E i \in DOMAIN s : s[i] = x

first_tool(tool_sequence) == IF tool_sequence = <<>> THEN "None" ELSE tool_sequence[1]

\* the branch taken for an invalid query
InvalidQueryScore(response, used_tools) ==
  IF ~InSeq("rag_query", used_tools) /\ ~InSeq("arxiv_search", used_tools)
  THEN Pts(50)
       + (IF \/ Contains(<<"in", "valid">>, LowerSeq(response.atoms))
             \/ Contains(<<"valid", " query">>, LowerSeq(response.atoms))
          THEN Pts(30) ELSE 0)
  ELSE 0 - Pts(50)

BaseToolScore(used_tools) ==
  IF InSeq("rag_query", used_tools) \/ InSeq("arxiv_search", used_tools)
  THEN Pts(30) ELSE 0

\* bonus or penalty from the task's intelligent_choice label
LabelAdjustment(task, tool_sequence) ==
  LET expected_first == task.intelligent_choice
      first == first_tool(tool_sequence)
  IN  IF expected_first = NoKey THEN 0
      ELSE IF expected_first = "arxiv_search_first" /\ first = "arxiv_search" THEN Pts(15)
      ELSE IF expected_first = "rag_query_first" /\ first = "rag_query" THEN Pts(10)
      ELSE IF expected_first = "arxiv_search_first" /\ first = "rag_query" THEN 0 - Pts(10)
      ELSE IF expected_first = "rag_query_first" /\ first = "arxiv_search" THEN 0 - Pts(5)
      ELSE 0

should_use_arxiv_first(query) == AnyIn(ARXIV_FIRST_KEYWORDS, LowerSeq(query.atoms))

\* bonus or penalty from the keyword heuristic on the query
KeywordAdjustment(query, tool_sequence) ==
  IF should_use_arxiv_first(query) /\ first_tool(tool_sequence) = "arxiv_search" THEN Pts(10)
  ELSE IF should_use_arxiv_first(query) /\ first_tool(tool_sequence) = "rag_query"
       THEN 0 - Pts(5)
  ELSE 0

ValidQueryScore(query, response, used_tools, tool_sequence, task) ==
  LET score == BaseToolScore(used_tools) + LabelAdjustment(task, tool_sequence)
               + KeywordAdjustment(query, tool_sequence) + FormatScore(response)
               + CompletenessScore(response) + CitationScore(response)
  IN  IF /\ task.expected_output_contains.present
         /\ FoundExpected(task.expected_output_contains.list, response) > 0
      THEN Min(Scale, score + ExpectedBonus(task.expected_output_contains.list, response))
      ELSE score

calculate_reward(query, response, used_tools, tool_sequence, messages, task) ==
  IF TextLen(response) = 0 THEN 0
  ELSE IF detected_invalid(query, task)
       THEN Clamp(InvalidQueryScore(response, used_tools))
       ELSE Clamp(ValidQueryScore(query, response, used_tools, tool_sequence, task))


(***************************************************************************)
(* The two tools.  The backend of a call (vector store, arXiv API) either  *)
(* finds nothing, finds something, or fails (transport or parse failure).  *)
(* A tool invocation gives [raised, value]: the string returned, or an     *)
(* exception raised into the caller.                                       *)
(***************************************************************************)
Backends == {"empty", "found", "failure"}

Returned(text) == [raised |-> FALSE, value |-> text]

Raised == [raised |-> TRUE, value |-> EmptyText]

RAG_EMPTY ==
  Text(<<"RAG", "_", "EMPTY", ": No matching documents found in the knowledge base.">>, 0)

\* "[DB: {title}] ({source})\n{text}" of one match; the text is filler
RAG_FOUND ==
  Text(<<"[DB: ", "Quantum", "] (", "http", "s://", "arxiv", ".org", "/abs/x)\n">>, 120)

ARXIV_EMPTY ==
  Text(<<"ARXIV", "_", "EMPTY", ": No ", "paper", "s found for query 'q' on ", "arXiv", ".">>, 0)

ARXIV_ERROR ==
  Text(<<"ARXIV", "_", "ERROR", ": ", "Failed", " to search ", "arXiv", " API: ", "exc">>, 0)

\* "[arXiv: {title}]\nID: ..\nSummary: ..\nLink: https://arxiv.org/abs/.."
ARXIV_FOUND ==
  Text(<<"[", "arXiv", ": ", "Quantum", "]\nID: x\nSummary: ", "\nLink: ",
         "http", "s://", "arxiv", ".org", "/abs/x">>, 120)

\* rag_query: client.search / embed_query are not guarded by any try
rag_query(backend) ==
  CASE backend = "empty" -> Returned(RAG_EMPTY)
    [] backend = "found" -> Returned(RAG_FOUND)
    [] backend = "failure" -> Raised

\* arxiv_search: every exception of the request or the parse is caught
arxiv_search(backend) ==
  CASE backend = "empty" -> Returned(ARXIV_EMPTY)
    [] backend = "found" -> Returned(ARXIV_FOUND)
    [] backend = "failure" -> Returned(ARXIV_ERROR)

UnknownToolError(tool_name) == Text(<<"ERROR", ": Unknown tool '", tool_name, "'">>, 0)

execute_tool(tool_name, backend) ==
  IF tool_name = "rag_query" THEN rag_query(backend)
  ELSE IF tool_name = "arxiv_search" THEN arxiv_search(backend)
  ELSE Returned(UnknownToolError(tool_name))

(***************************************************************************)
(* The rollout: rag_agent_rollout (with its caller                         *)
(* evaluate_prompt_performance, which grades the returned dict or records  *)
(* 0.0 when the rollout raised) and RAGLitAgent.training_rollout.          *)
(***************************************************************************)
VARIABLES
  fn,              \* which rollout function runs
  task,            \* its task
  pc,              \* "idle", "loop", "tools", "final", "done"
  iteration,
  messages,        \* the transcript
  tc_idx,          \* index of the next tool call of the last assistant message
  used_tools,      \* training_rollout only
  tool_sequence,   \* training_rollout only
  final_response,
  returned,        \* "none", "dict", "reward", "exception"
  score,           \* the reward returned, or the score the caller records
  graded,          \* a grader was applied to the final response
  model_failed,    \* a model call raised
  tool_raised,     \* a tool invocation raised into the loop
  model_calls,     \* model calls issued: [tools |-> n, plain |-> m]
  next_id          \* ids of tool calls are fresh

rollout_vars ==
  <<fn, task, pc, iteration, messages, tc_idx, used_tools, tool_sequence,
    final_response, returned, score, graded, model_failed, tool_raised,
    model_calls, next_id>>

VARIABLES
  g_pc,        \* "off", "ready", "graded"
  g_task,
  g_calls,     \* names of the tool calls of the transcript, in order
  g_results,   \* what every tool call of the transcript found: "empty", "found"
  g_response,
  g_by,        \* the grader applied
  g_score

grader_vars == <<g_pc, g_task, g_calls, g_results, g_response, g_by, g_score>>

VARIABLES
  q_pc,          \* "off", "agent", "responded"
  q_messages,    \* the messages of the agent's state
  q_invoked,     \* the tools the agent has actually invoked
  q_rag_empty,   \* a rag_query invocation returned RAG_EMPTY
  q_exc,         \* the exception agent.invoke raised, if q_raised
  q_raised,
  q_status       \* HTTP status of the response, 0 before

query_vars == <<q_pc, q_messages, q_invoked, q_rag_empty, q_exc, q_raised, q_status>>

VARIABLES
  i_pc,        \* "off", "idle", "ensure", "fetch", "upsert"
  i_entry,     \* "none", "run_ingestion", "cli"
  i_dim,       \* length of the vectors the process's embedding model returns
  i_max_docs,  \* the max_docs the run fetches with
  i_requested, \* the max_docs the caller gave, if any
  coll,        \* the target collection of the vector store
  i_docs,      \* the documents load_documents returned
  i_calls,     \* calls made by the current run, per step
  i_result,    \* how the last run ended
  i_returned,  \* the count the last run reported
  i_runs,      \* runs started
  i_restarts,  \* process starts after the first
  i_before,    \* the collection when the current run started
  i_rendered,  \* what the last rag_query rendered, one text per match
  next_uuid    \* uuid4 values are fresh

ingest_vars ==
  <<i_pc, i_entry, i_dim, i_max_docs, i_requested, coll, i_docs, i_calls, i_result, i_returned,
    i_runs, i_restarts, i_before, i_rendered, next_uuid>>

VARIABLES
  c_pc,        \* per concurrent rollout: where it is, and its iteration
  c_script,    \* per concurrent rollout: what its model and tools answer
  c_state,     \* per slot: the lists an invocation builds
  c_result     \* per concurrent rollout: what it returned

conc_vars == <<c_pc, c_script, c_state, c_result>>

VARIABLES
  clients,     \* per client factory: calls, constructions, instances handed out
  p_starts     \* process starts after the first

client_vars == <<clients, p_starts>>

VARIABLES
  t_pc,                  \* "off", "baseline", "optimize", "evaluate", "save", "done"
  num_iterations,        \* config.num_iterations
  baseline_average,      \* baseline_train_metrics['average']
  t_iteration,           \* iterations of the optimization loop completed
  best_template,
  best_score,
  optimized_template,
  t_evaluated,           \* the templates the loop evaluated, one per iteration
  t_final,               \* the template the closing evaluation ran on
  t_file,                \* contents of optimized_prompt.txt
  t_raised               \* the optimization block raised

train_vars ==
  <<t_pc, num_iterations, baseline_average, t_iteration, best_template, best_score, optimized_template,
    t_evaluated, t_final, t_file, t_raised>>

VARIABLES
  e_pc,        \* per concurrent run: "off", "list", "check", "create", "done",
               \* "ValueError", "conflict"
  e_dim,       \* per concurrent run: length of its embedding vectors
  e_listed,    \* per concurrent run: the collection was among the names it listed
  e_coll,      \* the collection both runs target
  e_before,    \* that collection before either run started
  e_creates    \* create_collection calls made, by both runs together

race_vars == <<e_pc, e_dim, e_listed, e_coll, e_before, e_creates>>

VARIABLES
  s_pc,          \* "off", "stream", "closed"
  s_events,      \* the events of the response, in order: "chunk", "done", "error"
  s_messages,    \* all_messages
  s_raised       \* agent.astream raised

stream_vars == <<s_pc, s_events, s_messages, s_raised>>

VARIABLES
  l_pc,        \* "off", "import", "built", "failed"
  l_settings,  \* apo_optimized_prompt_path is set, apo_use_optimized_prompt
  l_files,     \* per candidate file: "absent", "unreadable", "empty", "text"
  l_prompt     \* the prompt the graph was built with: "none", "baseline", "optimized"

graph_vars == <<l_pc, l_settings, l_files, l_prompt>>

other_vars == <<train_vars, race_vars, stream_vars, graph_vars>>

Rollouts == {"rag_agent_rollout", "training_rollout"}

ToolNames == {"rag_query", "arxiv_search", "web_search"}

Q_valid == Text(<<"w","h","a","t"," ","i","s"," ","r","a","g","?">>, 0)

Q_latest == Text(<<"L","a","t","e","s","t"," ","l","l","m">>, 0)

Q_short == Text(<<"h","i">>, 0)

Q_digits == Text(<<"1","2","3","4","5">>, 0)

Q_punct == Text(<<"?","!","?","!">>, 0)

Q_denylist == Text(<<"A","S","D","F","G","H","J","K","L">>, 0)

Q_lowdiv == Text(<<"a","b","a","b","a","b">>, 0)

Q_123 == Text(<<"a","1","2","3","b","1","2","3">>, 0)

P_toollog == <<"TOOL_LOG", ":">>

P_answer == <<"Answer:">>

P_failed == <<"failed">>

P_cannot == <<"I ", "cannot">>

P_arxiv == <<"arXiv">>

P_invalid == <<"Invalid", " query">>

P_quantum == <<"Quantum">>

P_computing == <<"computing">>

ANSWER_GOOD == Text(JoinPhrases(<<P_toollog, P_answer, P_quantum, P_arxiv>>), 120)

ANSWER_REJECT == Text(JoinPhrases(<<P_invalid>>), 40)

\* final answers the model gives in a rollout ('' stands for content None)
AnswerTexts == {EmptyText, ANSWER_GOOD, ANSWER_REJECT}

RolloutTasks ==
  {Task(Q_valid, Expected(<<P_quantum>>), "rag_query_first", FALSE),
   Task(Q_denylist, NoExpected, NoKey, FALSE)}

SYSTEM_PROMPT ==
  Text(<<"rag", "_", "query", " ", "arxiv", "_", "search", " ", "RAG", "_", "EMPTY">>, 1000)

CallLists(n) == UNION {[1..k -> ToolNames] : k \in 1..n}

\* the tool calls the model may request in one response when the next fresh
\* tool call id is id
RequestsAt(id) ==
  IF id <= MaxFreeCalls
  THEN {names \in CallLists(MaxCallsPerTurn) :
          \A i \in DOMAIN names : id + i - 1 <= MaxFreeCalls \/ names[i] = "rag_query"}
  ELSE {<<"rag_query">>}

\* what the backend of the tool call with the id may do
BackendsAt(id) == IF id <= MaxFreeCalls THEN Backends ELSE {"empty", "failure"}

\* never reached by the program: stops the exploration of a loop whose
\* round counter is broken
ModelCallCap == max_iterations + 2

LoopForever(it) == TRUE

LoopOneMore(it) == it <= max_iterations

\* while iteration < max_iterations
LoopContinues(it) == it < max_iterations

RECURSIVE UsedAfter(_, _)
\* used_tools after the tool calls of one response
UsedAfter(used, calls) ==
  IF calls = <<>> THEN used
  ELSE UsedAfter(IF InSeq(Head(calls).name, used) THEN used
                 ELSE Append(used, Head(calls).name),
                 Tail(calls))

RECURSIVE SequenceAfter(_, _)
\* tool_sequence after the tool calls of one response
SequenceAfter(sequence, calls) ==
  IF calls = <<>> THEN sequence
  ELSE SequenceAfter(IF Head(calls).name \in {"rag_query", "arxiv_search"}
                     THEN Append(sequence, Head(calls).name) ELSE sequence,
                     Tail(calls))

AlwaysFinalCall(msgs) == TRUE

\* if messages and messages[-1].get('role') == 'tool'
NeedsFinalCall(msgs) == msgs # <<>> /\ msgs[Len(msgs)].role = "tool"

NoFinalResponse(msgs) == EmptyText

\* final_response = messages[-1].get('content', '') after the loop
final_response_of(msgs) == msgs[Len(msgs)].content

\* the assistant message whose tool calls are being executed
Requesting == CHOOSE i \in DOMAIN messages :
                /\ messages[i].role = "assistant"
                /\ \A j \in DOMAIN messages : j > i => messages[j].role = "tool"

RolloutInit ==
  /\ fn = "none"
  /\ task = Task(EmptyText, NoExpected, NoKey, FALSE)
  /\ pc = "idle"
  /\ iteration = 0
  /\ messages = <<>>
  /\ tc_idx = 0
  /\ used_tools = <<>>
  /\ tool_sequence = <<>>
  /\ final_response = EmptyText
  /\ returned = "none"
  /\ score = 0
  /\ graded = FALSE
  /\ model_failed = FALSE
  /\ tool_raised = FALSE
  /\ model_calls = [tools |-> 0, plain |-> 0]
  /\ next_id = 1

\* entry of the rollout: the initial conversation
StartRollout ==
  /\ pc = "idle"
  /\ \E f \in Rollouts, t \in RolloutTasks :
       /\ fn' = f
       /\ task' = t
       /\ messages' = <<PlainMessage("system", SYSTEM_PROMPT),
                        PlainMessage("user", t.query)>>
  /\ pc' = "loop"
  /\ UNCHANGED <<iteration, tc_idx, used_tools, tool_sequence, final_response,
                 returned, score, graded, model_failed, tool_raised,
                 model_calls, next_id>>
  /\ UNCHANGED <<grader_vars, query_vars, ingest_vars, conc_vars, client_vars, other_vars>>

\* rag_agent_rollout raises into evaluate_prompt_performance, which records
\* 0.0; training_rollout returns 0.0
Abort ==
  /\ pc' = "done"
  /\ returned' = IF fn = "training_rollout" THEN "reward" ELSE "exception"
  /\ score' = 0

\* the rollout returns after the loop with the given transcript and response
Finish(msgs, response, used, sequence) ==
  /\ pc' = "done"
  /\ messages' = msgs
  /\ final_response' = response
  /\ graded' = TRUE
  /\ IF fn = "training_rollout"
     THEN /\ returned' = "reward"
          /\ score' = calculate_reward(task.query, response, used, sequence, msgs, task)
     ELSE /\ returned' = "dict"
          /\ score' = rag_response_grader(
                        [messages |-> msgs, response |-> response, task |-> task])

\* a model call of the loop raises
ModelRaises ==
  /\ pc = "loop"
  /\ model_calls.tools < ModelCallCap
  /\ iteration' = iteration + 1
  /\ model_calls' = [model_calls EXCEPT !.tools = @ + 1]
  /\ model_failed' = TRUE
  /\ Abort
  /\ UNCHANGED <<fn, task, messages, tc_idx, used_tools, tool_sequence,
                 final_response, graded, tool_raised, next_id>>
  /\ UNCHANGED <<grader_vars, query_vars, ingest_vars, conc_vars, client_vars, other_vars>>

\* a model call of the loop answers without tool calls: break, return
ModelAnswers ==
  /\ pc = "loop"
  /\ model_calls.tools < ModelCallCap
  /\ iteration' = iteration + 1
  /\ model_calls' = [model_calls EXCEPT !.tools = @ + 1]
  /\ \E content \in AnswerTexts :
       LET appended == Append(messages, AssistantMessage(content, <<>>))
       IN  IF NeedsFinalCall(appended)
           THEN /\ pc' = "final"
                /\ messages' = appended
                /\ final_response' = final_response_of(appended)
                /\ UNCHANGED <<returned, score, graded>>
           ELSE Finish(appended, final_response_of(appended), used_tools, tool_sequence)
  /\ UNCHANGED <<fn, task, tc_idx, used_tools, tool_sequence, model_failed,
                 tool_raised, next_id>>
  /\ UNCHANGED <<grader_vars, query_vars, ingest_vars, conc_vars, client_vars, other_vars>>

\* a model call of the loop requests tools
ModelRequestsTools ==
  /\ pc = "loop"
  /\ model_calls.tools < ModelCallCap
  /\ iteration' = iteration + 1
  /\ model_calls' = [model_calls EXCEPT !.tools = @ + 1]
  /\ \E names \in RequestsAt(next_id) :
       LET calls == [i \in 1..Len(names) |-> ToolCall(next_id + i - 1, names[i])]
       IN  /\ messages' = Append(messages, AssistantMessage(EmptyText, calls))
           /\ next_id' = next_id + Len(names)
           /\ IF fn = "training_rollout"
              THEN /\ used_tools' = UsedAfter(used_tools, calls)
                   /\ tool_sequence' = SequenceAfter(tool_sequence, calls)
              ELSE UNCHANGED <<used_tools, tool_sequence>>
  /\ tc_idx' = 1
  /\ pc' = "tools"
  /\ UNCHANGED <<fn, task, final_response, returned, score, graded,
                 model_failed, tool_raised>>
  /\ UNCHANGED <<grader_vars, query_vars, ingest_vars, conc_vars, client_vars, other_vars>>

\* the next tool call is executed and its result appended
ToolReturns ==
  /\ pc = "tools"
  /\ \E backend \in BackendsAt(messages[Requesting].tool_calls[tc_idx].id) :
       LET tool_call == messages[Requesting].tool_calls[tc_idx]
           outcome == execute_tool(tool_call.name, backend)
           appended == Append(messages, ToolResultMessage(tool_call, outcome.value))
       IN  /\ ~outcome.raised
           /\ IF tc_idx < Len(messages[Requesting].tool_calls)
              THEN /\ tc_idx' = tc_idx + 1
                   /\ messages' = appended
                   /\ UNCHANGED <<pc, final_response, returned, score, graded>>
              ELSE /\ tc_idx' = 0
                   /\ IF LoopContinues(iteration)
                      THEN /\ pc' = "loop"
                           /\ messages' = appended
                           /\ UNCHANGED <<final_response, returned, score, graded>>
                      ELSE IF NeedsFinalCall(appended)
                      THEN /\ pc' = "final"
                           /\ messages' = appended
                           /\ final_response' = final_response_of(appended)
                           /\ UNCHANGED <<returned, score, graded>>
                      ELSE Finish(appended, final_response_of(appended),
                                  used_tools, tool_sequence)
  /\ UNCHANGED <<fn, task, iteration, used_tools, tool_sequence,
                 model_failed, tool_raised, model_calls, next_id>>
  /\ UNCHANGED <<grader_vars, query_vars, ingest_vars, conc_vars, client_vars, other_vars>>

\* the next tool call raises into the loop
ToolRaises ==
  /\ pc = "tools"
  /\ \E backend \in BackendsAt(messages[Requesting].tool_calls[tc_idx].id) :
       execute_tool(messages[Requesting].tool_calls[tc_idx].name, backend).raised
  /\ tool_raised' = TRUE
  /\ Abort
  /\ UNCHANGED <<fn, task, iteration, messages, tc_idx, used_tools, tool_sequence,
                 final_response, graded, model_failed, model_calls, next_id>>
  /\ UNCHANGED <<grader_vars, query_vars, ingest_vars, conc_vars, client_vars, other_vars>>

\* the last message is a tool result: the tool-less model call answers
FinalAnswer ==
  /\ pc = "final"
  /\ model_calls' = [model_calls EXCEPT !.plain = @ + 1]
  /\ \E content \in AnswerTexts :
       Finish(IF fn = "training_rollout" THEN messages
              ELSE Append(messages, PlainMessage("assistant", content)),
              content, used_tools, tool_sequence)
  /\ UNCHANGED <<fn, task, iteration, tc_idx, used_tools, tool_sequence,
                 model_failed, tool_raised, next_id>>
  /\ UNCHANGED <<grader_vars, query_vars, ingest_vars, conc_vars, client_vars, other_vars>>

\* the tool-less model call raises: rag_agent_rollout raises, training_rollout
\* logs the error and grades the response it has
FinalRaises ==
  /\ pc = "final"
  /\ model_calls' = [model_calls EXCEPT !.plain = @ + 1]
  /\ model_failed' = TRUE
  /\ IF fn = "training_rollout"
     THEN Finish(messages, final_response, used_tools, tool_sequence)
     ELSE /\ Abort
          /\ UNCHANGED <<messages, final_response, graded>>
  /\ UNCHANGED <<fn, task, iteration, tc_idx, used_tools, tool_sequence,
                 tool_raised, next_id>>
  /\ UNCHANGED <<grader_vars, query_vars, ingest_vars, conc_vars, client_vars, other_vars>>

RolloutNext ==
  \/ StartRollout
  \/ ModelRaises
  \/ ModelAnswers
  \/ ModelRequestsTools
  \/ ToolReturns
  \/ ToolRaises
  \/ FinalAnswer
  \/ FinalRaises

(***************************************************************************)
(* The graders as pure functions: the task and the transcript are drawn    *)
(* initially, the final response is drawn when a grader is applied.        *)
(***************************************************************************)
GibberishQueries == {Q_short, Q_digits, Q_punct, Q_denylist, Q_lowdiv, Q_123}

EXPECTED_POOL == <<P_quantum, P_computing, P_arxiv, <<"paper">> >>

ExpectedLists ==
  {NoExpected} \cup {Expected(SubSeq(EXPECTED_POOL, 1, k)) : k \in 1..MaxExpected}

Choices == {NoKey, "rag_query_first", "arxiv_search_first"}

GraderTasks ==
  {Task(Q_valid, e, c, FALSE) : e \in ExpectedLists, c \in Choices}
  \cup {Task(Q_latest, NoExpected, c, FALSE) : c \in Choices}
  \cup {Task(Q_valid, NoExpected, NoKey, TRUE)}
  \cup {Task(q, NoExpected, NoKey, FALSE) : q \in GibberishQueries}

PHRASES == <<P_toollog, P_answer, P_failed, P_cannot, P_arxiv, P_invalid, P_quantum>>

\* the phrases of a response: up to MaxPhrases of PHRASES, in the order of PHRASES
PhraseChoices ==
  UNION {{c \in [1..k -> 1..Len(PHRASES)] : \A i \in 1..(k - 1) : c[i] < c[i + 1]}
         : k \in 0..MaxPhrases}

GradedResponses ==
  {Text(JoinPhrases([i \in 1..Len(c) |-> PHRASES[c[i]]]), pad) :
     c \in PhraseChoices, pad \in {0, 45, 100}}

GradedCallLists == {<<>>} \cup CallLists(MaxCallsPerTurn)

RECURSIVE ExchangeMessages(_, _, _)
\* one assistant message and one tool result per tool call
ExchangeMessages(names, backend, id) ==
  IF names = <<>> THEN <<>>
  ELSE <<AssistantMessage(EmptyText, <<ToolCall(id, Head(names))>>),
         ToolResultMessage(ToolCall(id, Head(names)),
                           execute_tool(Head(names), backend).value)>>
       \o ExchangeMessages(Tail(names), backend, id + 1)

\* the transcript of a rollout that made the calls and ended with the response
TranscriptOf(t, names, backend, response) ==
  <<PlainMessage("system", SYSTEM_PROMPT), PlainMessage("user", t.query)>>
  \o ExchangeMessages(names, backend, 1)
  \o <<AssistantMessage(response, <<>>)>>

CallsOf(names) == [i \in 1..Len(names) |-> ToolCall(i, names[i])]

GraderOff ==
  /\ g_pc = "off"
  /\ g_task = Task(EmptyText, NoExpected, NoKey, FALSE)
  /\ g_calls = <<>>
  /\ g_results = "empty"
  /\ g_response = EmptyText
  /\ g_by = "none"
  /\ g_score = 0

GraderInit ==
  /\ g_pc = "ready"
  /\ g_task \in GraderTasks
  /\ g_calls \in GradedCallLists
  /\ g_results \in (IF \E i \in DOMAIN g_calls : g_calls[i] \in {"rag_query", "arxiv_search"}
                    THEN {"empty", "found"} ELSE {"empty"})
  /\ g_response = EmptyText
  /\ g_by = "none"
  /\ g_score = 0

GradeRollout ==
  /\ g_pc = "ready"
  /\ \E response \in GradedResponses :
       /\ g_response' = response
       /\ g_score' = rag_response_grader(
                       [messages |-> TranscriptOf(g_task, g_calls, g_results, response),
                        response |-> response, task |-> g_task])
  /\ g_by' = "rag_response_grader"
  /\ g_pc' = "graded"
  /\ UNCHANGED <<g_task, g_calls, g_results>>
  /\ UNCHANGED <<rollout_vars, query_vars, ingest_vars, conc_vars, client_vars, other_vars>>

CalculateReward ==
  /\ g_pc = "ready"
  /\ \E response \in GradedResponses :
       /\ g_response' = response
       /\ g_score' = calculate_reward(
                       g_task.query, response,
                       UsedAfter(<<>>, CallsOf(g_calls)),
                       SequenceAfter(<<>>, CallsOf(g_calls)),
                       TranscriptOf(g_task, g_calls, g_results, response), g_task)
  /\ g_by' = "_calculate_reward"
  /\ g_pc' = "graded"
  /\ UNCHANGED <<g_task, g_calls, g_results>>
  /\ UNCHANGED <<rollout_vars, query_vars, ingest_vars, conc_vars, client_vars, other_vars>>

GraderNext == GradeRollout \/ CalculateReward

(***************************************************************************)
(* POST /query of the LangChain service.  The ReAct agent behind           *)
(* agent.invoke is a library: it invokes tools, then answers or raises.    *)
(***************************************************************************)
LcMessage(type, content, tool_calls, name) ==
  [type |-> type, content |-> content, tool_calls |-> tool_calls, name |-> name]

\* the content-based fallback of _extract_tools_from_messages
ContentTools(content) ==
  IF TextLen(content) = 0 THEN {}
  ELSE (IF Contains(<<"rag", "_", "query">>, content.atoms) THEN {"rag_query"} ELSE {})
       \cup (IF \/ Contains(<<"arxiv", "_", "search">>, content.atoms)
                \/ Contains(<<"ARXIV">>, content.atoms)
                \/ Contains(<<"arxiv", ".org">>, LowerSeq(content.atoms))
             THEN {"arxiv_search"} ELSE {})

MessageTools(message) ==
  {message.tool_calls[j].name : j \in DOMAIN message.tool_calls}
  \cup (IF message.type = "tool" THEN {message.name} ELSE {})
  \cup ContentTools(message.content)

\* list(set(tools_used))
extract_tools_from_messages(msgs) == UNION {MessageTools(msgs[i]) : i \in DOMAIN msgs}

rag_empty_in_messages(msgs) ==
  \E i \in DOMAIN msgs : Contains(<<"RAG", "_", "EMPTY">>, msgs[i].content.atoms)

\* the validation of the response of agent.invoke
ValidationStatus(msgs) ==
  LET tools_used == extract_tools_from_messages(msgs)
  IN  IF tools_used = {} THEN 400
      ELSE IF /\ rag_empty_in_messages(msgs)
              /\ "rag_query" \in tools_used
              /\ "arxiv_search" \notin tools_used
           THEN 400
      ELSE 200

Exception(connect, value, type_name, str) ==
  [is_connect_error |-> connect, is_value_error |-> value,
   type_name |-> type_name, str |-> str]

NoException == Exception(FALSE, FALSE, <<>>, EmptyText)

looks_like_auth(exc) ==
  \/ Contains(<<"AuthenticationError">>, exc.type_name)
  \/ Contains(<<"401">>, exc.str.atoms)
  \/ Contains(<<"Unauthorized">>, exc.str.atoms)

looks_like_502(exc) ==
  \/ Contains(<<"InternalServerError">>, exc.type_name)
  \/ Contains(<<"502">>, exc.str.atoms)

ErrorStatusGatewayFirst(exc) ==
  IF exc.is_connect_error THEN 502
  ELSE IF exc.is_value_error THEN 400
  ELSE IF looks_like_502(exc) THEN 502
  ELSE IF looks_like_auth(exc) THEN 401
  ELSE 500

\* the except clauses around agent.invoke, in their order
ErrorStatus(exc) ==
  IF exc.is_connect_error THEN 502
  ELSE IF exc.is_value_error THEN 400
  ELSE IF looks_like_auth(exc) THEN 401
  ELSE IF looks_like_502(exc) THEN 502
  ELSE 500

Questions ==
  {Text(<<"what is ", "quantum", " computing?">>, 0),
   Text(<<"summarize ", "arxiv", ".org", "/abs/x">>, 0),
   Text(<<"any ", "ARXIV", " news?">>, 0),
   Text(<<"what does ", "rag", "_", "query", " do?">>, 0)}

ANSWER_PLAIN == Text(<<"Quantum", " computing uses qubits.">>, 60)

ANSWER_LOGGED ==
  Text(<<"TOOL_LOG", ":", "\n- ", "rag", "_", "query", ": NOT_USED", "\n- ",
         "arxiv", "_", "search", ": NOT_USED", "\n", "ANSWER:">>, 60)

ANSWER_LINKED == Text(<<"see ", "http", "s://", "arxiv", ".org", "/abs/x">>, 60)

AgentAnswers == {ANSWER_PLAIN, ANSWER_LOGGED, ANSWER_LINKED}

ExceptionNames ==
  {<<"RuntimeError">>, <<"AuthenticationError">>, <<"InternalServerError">>}

ExceptionTexts ==
  {Text(<<"boom">>, 0), Text(<<"Error code: ", "401">>, 0), Text(<<"Unauthorized">>, 0),
   Text(<<"Error code: ", "502">>, 0), Text(<<"401", " behind ", "502">>, 0)}

Exceptions ==
  {Exception(c, v, n, m) :
     c \in BOOLEAN, v \in BOOLEAN, n \in ExceptionNames, m \in ExceptionTexts}

QueryOff ==
  /\ q_pc = "off"
  /\ q_messages = <<>>
  /\ q_invoked = {}
  /\ q_rag_empty = FALSE
  /\ q_exc = NoException
  /\ q_raised = FALSE
  /\ q_status = 0

\* the request is received and agent.invoke is entered with the question
QueryInit ==
  /\ q_pc = "agent"
  /\ \E question \in Questions :
       q_messages = <<LcMessage("human", question, <<>>, "")>>
  /\ q_invoked = {}
  /\ q_rag_empty = FALSE
  /\ q_exc = NoException
  /\ q_raised = FALSE
  /\ q_status = 0

\* the agent invokes a tool: an AI message with the tool call, then the
\* tool message with the result
AgentCallsTool ==
  /\ q_pc = "agent"
  /\ Cardinality({i \in DOMAIN q_messages : q_messages[i].type = "tool"}) < MaxAgentCalls
  /\ \E tool_name \in {"rag_query", "arxiv_search"}, backend \in Backends :
       LET outcome == execute_tool(tool_name, backend)
       IN  /\ ~outcome.raised
           /\ q_messages' = q_messages \o
                <<LcMessage("ai", EmptyText, <<ToolCall(Len(q_messages), tool_name)>>, ""),
                  LcMessage("tool", outcome.value, <<>>, tool_name)>>
           /\ q_invoked' = q_invoked \cup {tool_name}
           /\ q_rag_empty' = (q_rag_empty \/ (tool_name = "rag_query" /\ backend = "empty"))
  /\ UNCHANGED <<q_pc, q_exc, q_raised, q_status>>
  /\ UNCHANGED <<rollout_vars, grader_vars, ingest_vars, conc_vars, client_vars, other_vars>>

\* agent.invoke raises: the except clauses of query turn it into a status
AgentRaises ==
  /\ q_pc = "agent"
  /\ \E exc \in Exceptions :
       /\ q_exc' = exc
       /\ q_status' = ErrorStatus(exc)
  /\ q_raised' = TRUE
  /\ q_pc' = "responded"
  /\ UNCHANGED <<q_messages, q_invoked, q_rag_empty>>
  /\ UNCHANGED <<rollout_vars, grader_vars, ingest_vars, conc_vars, client_vars, other_vars>>

\* agent.invoke returns its messages: query validates the tool usage
AgentReturns ==
  /\ q_pc = "agent"
  /\ \E answer \in AgentAnswers :
       /\ q_messages' = Append(q_messages, LcMessage("ai", answer, <<>>, ""))
       /\ q_status' = ValidationStatus(q_messages')
  /\ q_pc' = "responded"
  /\ UNCHANGED <<q_invoked, q_rag_empty, q_exc, q_raised>>
  /\ UNCHANGED <<rollout_vars, grader_vars, ingest_vars, conc_vars, client_vars, other_vars>>

\* agent.invoke returns something that holds no messages: always rejected
AgentReturnsDirect ==
  /\ q_pc = "agent"
  /\ q_status' = 400
  /\ q_pc' = "responded"
  /\ UNCHANGED <<q_messages, q_invoked, q_rag_empty, q_exc, q_raised>>
  /\ UNCHANGED <<rollout_vars, grader_vars, ingest_vars, conc_vars, client_vars, other_vars>>

QueryNext == AgentCallsTool \/ AgentRaises \/ AgentReturns \/ AgentReturnsDirect

(***************************************************************************)
(* Ingestion (run_ingestion behind POST /ingest, and the CLI run command), *)
(* the vector collection, rag_query's rendering of stored points, and the  *)
(* client factories.  The vector store keeps what it is given: it is a     *)
(* collaborator, so no validation of its own is assumed.  A process has    *)
(* one embedding model, whose vectors all have the length i_dim.           *)
(***************************************************************************)
Collection(exists, has_vectors, size, points) ==
  [exists |-> exists, has_vectors |-> has_vectors, size |-> size, points |-> points]

AbsentCollection == Collection(FALSE, FALSE, 0, <<>>)

Dims == {ASSUMED_SIZE, 768}

\* d.get(key, default)
Get(d, key, default) == IF key \in DOMAIN d THEN d[key] ELSE default

\* str.strip() on the texts of the feed
Strip(s) ==
  CASE s = "  Quantum walks\n" -> "Quantum walks"
    [] s = " We study walks. " -> "We study walks."
    [] s = "\n" -> ""
    [] OTHER -> s

\* identifier.text.split("/")[-1]
LastSegment(s) ==
  CASE s = "http://arxiv.org/abs/2401.00001v1" -> "2401.00001v1"
    [] s = "http://arxiv.org/abs/2402.00002v2" -> "2402.00002v2"
    [] OTHER -> s

\* the Document built from one entry of the feed; an entry is a record that
\* holds the text of each child element it has
document_of(entry) ==
  LET doc_title == Get(entry, "title", "Untitled")
      doc_summary == Get(entry, "summary", "")
      doc_id == IF "id" \in DOMAIN entry THEN LastSegment(entry.id) ELSE "unknown"
  IN  [page_content |-> Strip(doc_summary),
       metadata |-> [title |-> Strip(doc_title), arxiv_id |-> doc_id,
                     source |-> <<"https://arxiv.org/abs/", doc_id>>]]

\* entries[:max_docs]
Take(s, n) == SubSeq(s, 1, IF n < Len(s) THEN n ELSE Len(s))

\* _fetch_via_api, given the entries of the feed's answer
fetch_via_api(entries, max_docs) ==
  [k \in 1..Len(Take(entries, max_docs)) |-> document_of(entries[k])]

ENTRY_FULL ==
  [title |-> "  Quantum walks\n", summary |-> " We study walks. ",
   id |-> "http://arxiv.org/abs/2401.00001v1"]

ENTRY_BARE == [summary |-> "\n", id |-> "http://arxiv.org/abs/2402.00002v2"]

\* the answers of the feed: its first entries, up to MaxDocs of them
Feeds ==
  {[k \in 1..n |-> IF k % 2 = 1 THEN ENTRY_FULL ELSE ENTRY_BARE] : n \in 0..MaxDocs}

RetryForever(attempts) == FALSE

\* stop=stop_after_attempt(3)
StopRetrying(attempts) == attempts >= stop_after_attempt

\* collection_info.config.params.vectors.size if ...vectors else 384
current_size(c) == IF c.has_vectors THEN c.size ELSE ASSUMED_SIZE

NeverListed(c) == FALSE

\* settings.qdrant_collection in names
CollectionListed(c) == c.exists

NeverMismatch(current, expected) == FALSE

\* current_size != expected_size
SizeMismatch(current, expected) == current # expected

EnsureBackends == {"ok", "list_fails", "probe_fails", "create_fails"}

EnsureResult(raised, c, probes, creates) ==
  [raised |-> raised, coll |-> c, probes |-> probes, creates |-> creates]

\* ensure_collection with its probe _get_embedding_dimension; raised is
\* "none", "ValueError" or "error" (a failure of the store or of the probe)
ensure_collection(c, dim, backend) ==
  IF backend = "list_fails" THEN EnsureResult("error", c, 0, 0)
  ELSE IF CollectionListed(c)
       THEN IF backend = "probe_fails" THEN EnsureResult("error", c, 1, 0)
            ELSE IF SizeMismatch(current_size(c), dim)
                 THEN EnsureResult("ValueError", c, 1, 0)
            ELSE EnsureResult("none", c, 1, 0)
       ELSE IF backend = "probe_fails" THEN EnsureResult("error", c, 1, 0)
            ELSE IF backend = "create_fails" THEN EnsureResult("error", c, 1, 1)
            ELSE EnsureResult("none", Collection(TRUE, TRUE, dim, <<>>), 1, 1)

PayloadTextOnly(document) == [text |-> document.page_content]

\* payload={"text": document.page_content, "metadata": document.metadata}
PayloadOf(document) ==
  [text |-> document.page_content, metadata |-> document.metadata]

FixedId(uuid, k) == 1

\* str(uuid.uuid4()): the k-th id generated by a call
FreshId(uuid, k) == uuid + k - 1

\* the PointStruct of a document; origin remembers the document and is not
\* part of the stored point
PointOf(document, id, dim) ==
  [id |-> id, vector_len |-> dim, payload |-> PayloadOf(document), origin |-> document]

RECURSIVE write_points(_, _)
\* client.upsert: a point whose id is stored already is replaced, any other
\* point is added
write_points(points, payloads) ==
  IF payloads = <<>> THEN points
  ELSE LET p == Head(payloads)
           written == IF \E i \in DOMAIN points : points[i].id = p.id
                      THEN [i \in DOMAIN points |->
                              IF points[i].id = p.id THEN p ELSE points[i]]
                      ELSE Append(points, p)
       IN  write_points(written, Tail(payloads))

UpsertBackends == {"ok", "embed_fails", "upsert_fails"}

UpsertResult(raised, c, count, embeds, writes) ==
  [raised |-> raised, coll |-> c, count |-> count, embeds |-> embeds, writes |-> writes]

\* upsert_documents; a failing embedding fails on the first document
upsert_documents(c, documents, dim, uuid, backend) ==
  IF backend = "embed_fails" /\ documents # <<>> THEN UpsertResult(TRUE, c, 0, 1, 0)
  ELSE LET payloads == [k \in 1..Len(documents) |->
                          PointOf(documents[k], FreshId(uuid, k), dim)]
       IN  IF payloads = <<>> THEN UpsertResult(FALSE, c, 0, 0, 0)
           ELSE IF backend = "upsert_fails" THEN UpsertResult(TRUE, c, 0, Len(payloads), 1)
           ELSE UpsertResult(FALSE,
                             Collection(c.exists, c.has_vectors, c.size,
                                        write_points(c.points, payloads)),
                             Len(payloads), Len(payloads), 1)

\* "[DB: {title}] ({source})\n{text}" of one match of rag_query
format_match(payload) ==
  LET metadata == Get(payload, "metadata", <<>>)
      title == Get(metadata, "title", "Untitled")
      source == Get(metadata, "source", <<"Unknown">>)
      text == Get(payload, "text", "")
  IN  <<"[DB: ", title, "] (">> \o source \o <<")\n", text>>

\* calls made by a run: of ensure_collection, of the probe, of
\* create_collection, attempts of load_documents and how many of them
\* returned, calls of upsert_documents, of embed_query for a document and of
\* client.upsert
NoCalls ==
  [ensure |-> 0, probe |-> 0, create |-> 0, fetch |-> 0, loaded |-> 0,
   upsert |-> 0, embed |-> 0, write |-> 0]

Entries == {"run_ingestion", "cli"}

\* max_docs: int | None = Field(default=None, ge=0, le=25), and the CLI's option
Requested(given, value) == [given |-> given, value |-> value]

NotGiven == Requested(FALSE, 0)

Requests == {NotGiven} \cup {Requested(TRUE, n) : n \in 0..MaxDocs}

\* payload.max_docs or settings.arxiv_max_docs; max_docs or settings.arxiv_max_docs
effective_max_docs(requested) ==
  IF requested.given /\ requested.value # 0 THEN requested.value ELSE arxiv_max_docs

InitialCollections ==
  {AbsentCollection} \cup {Collection(TRUE, TRUE, d, <<>>) : d \in Dims}
  \cup {Collection(TRUE, FALSE, 0, <<>>)}

IngestOff ==
  /\ i_pc = "off"
  /\ i_entry = "none"
  /\ i_dim = ASSUMED_SIZE
  /\ i_max_docs = 0
  /\ i_requested = NotGiven
  /\ coll = AbsentCollection
  /\ i_docs = <<>>
  /\ i_calls = NoCalls
  /\ i_result = "none"
  /\ i_returned = 0
  /\ i_runs = 0
  /\ i_restarts = 0
  /\ i_before = AbsentCollection
  /\ i_rendered = <<>>
  /\ next_uuid = 1

\* a process has started; the collection is absent or was created earlier
IngestInit ==
  /\ i_pc = "idle"
  /\ i_entry = "none"
  /\ i_dim \in Dims
  /\ i_max_docs = 0
  /\ i_requested = NotGiven
  /\ coll \in InitialCollections
  /\ i_docs = <<>>
  /\ i_calls = NoCalls
  /\ i_result = "none"
  /\ i_returned = 0
  /\ i_runs = 0
  /\ i_restarts = 0
  /\ i_before = coll
  /\ i_rendered = <<>>
  /\ next_uuid = 1

\* the process is started again, possibly with another embedding model
Restart ==
  /\ i_pc = "idle"
  /\ i_restarts < MaxRestarts
  /\ i_restarts' = i_restarts + 1
  /\ i_dim' \in Dims
  /\ i_rendered' = <<>>
  /\ UNCHANGED <<i_pc, i_entry, i_max_docs, i_requested, coll, i_docs, i_calls, i_result,
                 i_returned, i_runs, i_before, next_uuid>>
  /\ UNCHANGED <<rollout_vars, grader_vars, query_vars, conc_vars, client_vars, other_vars>>

\* run_ingestion or the CLI run command is entered
StartRun ==
  /\ i_pc = "idle"
  /\ i_runs < MaxRuns
  /\ i_runs' = i_runs + 1
  /\ i_entry' \in Entries
  /\ i_requested' \in Requests
  /\ i_max_docs' = effective_max_docs(i_requested')
  /\ i_pc' = "ensure"
  /\ i_calls' = NoCalls
  /\ i_docs' = <<>>
  /\ i_result' = "none"
  /\ i_returned' = 0
  /\ i_before' = coll
  /\ i_rendered' = <<>>
  /\ UNCHANGED <<i_dim, coll, i_restarts, next_uuid>>
  /\ UNCHANGED <<rollout_vars, grader_vars, query_vars, conc_vars, client_vars, other_vars>>

\* ensure_collection()
EnsureCollection ==
  /\ i_pc = "ensure"
  /\ \E backend \in EnsureBackends :
       LET r == ensure_collection(coll, i_dim, backend)
       IN  /\ coll' = r.coll
           /\ i_calls' = [i_calls EXCEPT !.ensure = i_calls.ensure + 1,
                                         !.probe = i_calls.probe + r.probes,
                                         !.create = i_calls.create + r.creates]
           /\ IF r.raised = "none"
              THEN /\ i_pc' = "fetch"
                   /\ UNCHANGED i_result
              ELSE /\ i_pc' = "idle"
                   /\ i_result' = r.raised
  /\ UNCHANGED <<i_entry, i_dim, i_max_docs, i_requested, i_docs, i_returned, i_runs, i_restarts,
                 i_before, i_rendered, next_uuid>>
  /\ UNCHANGED <<rollout_vars, grader_vars, query_vars, conc_vars, client_vars, other_vars>>

\* one attempt of load_documents fails (request, HTTP status or XML parse)
FetchFails ==
  /\ i_pc = "fetch"
  /\ i_calls' = [i_calls EXCEPT !.fetch = i_calls.fetch + 1]
  /\ IF StopRetrying(i_calls.fetch + 1)
     THEN /\ i_pc' = "idle"
          /\ i_result' = "RetryError"
     ELSE UNCHANGED <<i_pc, i_result>>
  /\ UNCHANGED <<i_entry, i_dim, i_max_docs, i_requested, coll, i_docs, i_returned, i_runs,
                 i_restarts, i_before, i_rendered, next_uuid>>
  /\ UNCHANGED <<rollout_vars, grader_vars, query_vars, conc_vars, client_vars, other_vars>>

\* one attempt of load_documents returns; without documents the run ends
FetchReturns ==
  /\ i_pc = "fetch"
  /\ i_calls' = [i_calls EXCEPT !.fetch = i_calls.fetch + 1,
                                !.loaded = i_calls.loaded + 1]
  /\ \E entries \in Feeds :
       /\ i_docs' = fetch_via_api(entries, i_max_docs)
       /\ IF i_docs' = <<>>
          THEN /\ i_pc' = "idle"
               /\ i_result' = "no_documents"
          ELSE /\ i_pc' = "upsert"
               /\ UNCHANGED i_result
  /\ UNCHANGED <<i_entry, i_dim, i_max_docs, i_requested, coll, i_returned, i_runs, i_restarts,
                 i_before, i_rendered, next_uuid>>
  /\ UNCHANGED <<rollout_vars, grader_vars, query_vars, conc_vars, client_vars, other_vars>>

\* upsert_documents(documents)
UpsertDocuments ==
  /\ i_pc = "upsert"
  /\ \E backend \in UpsertBackends :
       LET r == upsert_documents(coll, i_docs, i_dim, next_uuid, backend)
       IN  /\ coll' = r.coll
           /\ i_calls' = [i_calls EXCEPT !.upsert = i_calls.upsert + 1,
                                         !.embed = i_calls.embed + r.embeds,
                                         !.write = i_calls.write + r.writes]
           /\ i_result' = IF r.raised THEN "error" ELSE "ok"
           /\ i_returned' = r.count
  /\ next_uuid' = next_uuid + Len(i_docs)
  /\ i_pc' = "idle"
  /\ UNCHANGED <<i_entry, i_dim, i_max_docs, i_requested, i_docs, i_runs, i_restarts, i_before,
                 i_rendered>>
  /\ UNCHANGED <<rollout_vars, grader_vars, query_vars, conc_vars, client_vars, other_vars>>

\* the matches of a search: up to search_limit stored points, here the ones
\* stored last
Matches(points) ==
  LET n == IF search_limit < Len(points) THEN search_limit ELSE Len(points)
  IN  [k \in 1..n |-> Len(points) - n + k]

\* rag_query finds matches and renders them
Search ==
  /\ i_pc = "idle"
  /\ coll.exists
  /\ coll.points # <<>>
  /\ i_rendered = <<>>
  /\ i_rendered' = [k \in DOMAIN Matches(coll.points) |->
                      [id |-> coll.points[Matches(coll.points)[k]].id,
                       text |-> format_match(coll.points[Matches(coll.points)[k]].payload)]]
  /\ UNCHANGED <<i_pc, i_entry, i_dim, i_max_docs, i_requested, coll, i_docs, i_calls, i_result,
                 i_returned, i_runs, i_restarts, i_before, next_uuid>>
  /\ UNCHANGED <<rollout_vars, grader_vars, query_vars, conc_vars, client_vars, other_vars>>

IngestNext ==
  \/ Restart
  \/ StartRun
  \/ EnsureCollection
  \/ FetchFails
  \/ FetchReturns
  \/ UpsertDocuments
  \/ Search

(***************************************************************************)
(* The client factories of a process.                                      *)
(***************************************************************************)
Factories == {"get_openai_client", "get_embeddings", "get_qdrant_client"}

\* the factories decorated with lru_cache
Cached(factory) == factory \in {"get_embeddings", "get_qdrant_client"}

NoClients == [f \in Factories |-> [calls |-> 0, constructed |-> 0, handed |-> {}]]

\* one call of a factory that returns: a cached factory constructs its client
\* on the first such call only; instances are numbered as constructed
call_factory(cs, factory) ==
  IF Cached(factory) /\ cs[factory].constructed > 0
  THEN [cs EXCEPT ![factory] =
          [calls |-> cs[factory].calls + 1,
           constructed |-> cs[factory].constructed,
           handed |-> cs[factory].handed \cup {cs[factory].constructed}]]
  ELSE [cs EXCEPT ![factory] =
          [calls |-> cs[factory].calls + 1,
           constructed |-> cs[factory].constructed + 1,
           handed |-> cs[factory].handed \cup {cs[factory].constructed + 1}]]

ClientsOff ==
  /\ clients = NoClients
  /\ p_starts = 0

\* some code of the process asks a factory for its client
CallFactory ==
  /\ \E factory \in Factories :
       /\ clients[factory].calls < MaxClientCalls
       /\ clients' = call_factory(clients, factory)
  /\ UNCHANGED p_starts
  /\ UNCHANGED <<rollout_vars, grader_vars, query_vars, ingest_vars, conc_vars, other_vars>>

\* the process ends and another one starts: nothing is cached
StartProcess ==
  /\ p_starts < MaxRestarts
  /\ p_starts' = p_starts + 1
  /\ clients' = NoClients
  /\ UNCHANGED <<rollout_vars, grader_vars, query_vars, ingest_vars, conc_vars, other_vars>>

ClientNext ==
  \/ CallFactory
  \/ StartProcess

(***************************************************************************)
(* Two rollouts running at the same time.                                  *)
(***************************************************************************)
Invocations == {1, 2}

SharedSlot(p) == 1

\* messages, used_tools and tool_sequence are created by the invocation and
\* referenced by its local variables only
Slot(p) == p

\* what the model and the tools answer to one rollout: rounds of one tool call
\* with the backend's answer, then a response without tool calls or a failure
ROUNDS ==
  {[name |-> "rag_query", backend |-> "empty"],
   [name |-> "arxiv_search", backend |-> "found"]}

ConcScripts ==
  {[fn |-> f, task |-> t, rounds |-> r, last |-> l] :
     f \in Rollouts,
     t \in {Task(Q_valid, Expected(<<P_quantum>>), "rag_query_first", FALSE)},
     r \in UNION {[1..k -> ROUNDS] : k \in 0..MaxConcRounds},
     l \in {"answer", "raise"}}

Locals(msgs, used, sequence) ==
  [messages |-> msgs, used_tools |-> used, tool_sequence |-> sequence]

NoLocals == Locals(<<>>, <<>>, <<>>)

RolloutResult(returned_as, locals, response, reward) ==
  [returned |-> returned_as, messages |-> locals.messages,
   used_tools |-> locals.used_tools, response |-> response, score |-> reward]

NoResult == RolloutResult("none", NoLocals, EmptyText, 0)

\* the initial conversation
AtStart(script) ==
  Locals(<<PlainMessage("system", SYSTEM_PROMPT), PlainMessage("user", script.task.query)>>,
         <<>>, <<>>)

\* the locals after the model's response of round it, which requests a tool
AfterRequest(locals, script, it) ==
  LET calls == <<ToolCall(it, script.rounds[it].name)>>
  IN  Locals(Append(locals.messages, AssistantMessage(EmptyText, calls)),
             IF script.fn = "training_rollout"
             THEN UsedAfter(locals.used_tools, calls) ELSE locals.used_tools,
             IF script.fn = "training_rollout"
             THEN SequenceAfter(locals.tool_sequence, calls) ELSE locals.tool_sequence)

\* the locals after the tool call of round it
AfterTool(locals, script, it) ==
  Locals(Append(locals.messages,
                ToolResultMessage(ToolCall(it, script.rounds[it].name),
                                  execute_tool(script.rounds[it].name,
                                               script.rounds[it].backend).value)),
         locals.used_tools, locals.tool_sequence)

\* what the rollout returns when the model's last response arrives
AtEnd(locals, script) ==
  IF script.last = "raise"
  THEN RolloutResult(IF script.fn = "training_rollout" THEN "reward" ELSE "exception",
                     NoLocals, EmptyText, 0)
  ELSE LET ended == Locals(Append(locals.messages, AssistantMessage(ANSWER_GOOD, <<>>)),
                           locals.used_tools, locals.tool_sequence)
           response == final_response_of(ended.messages)
       IN  IF script.fn = "training_rollout"
           THEN RolloutResult("reward", ended, response,
                              calculate_reward(script.task.query, response, ended.used_tools,
                                               ended.tool_sequence, ended.messages,
                                               script.task))
           ELSE RolloutResult("dict", ended, response,
                              rag_response_grader([messages |-> ended.messages,
                                                   response |-> response,
                                                   task |-> script.task]))

ConcOff ==
  /\ c_pc = [p \in Invocations |-> [at |-> "off", iteration |-> 0]]
  /\ c_script = [p \in Invocations |-> <<>>]
  /\ c_state = [p \in Invocations |-> NoLocals]
  /\ c_result = [p \in Invocations |-> NoResult]

ConcInit ==
  /\ c_pc = [p \in Invocations |-> [at |-> "idle", iteration |-> 0]]
  /\ c_script \in [Invocations -> ConcScripts]
  /\ c_state = [p \in Invocations |-> NoLocals]
  /\ c_result = [p \in Invocations |-> NoResult]

\* invocation p is entered
EnterRollout(p) ==
  /\ c_pc[p].at = "idle"
  /\ c_pc' = [c_pc EXCEPT ![p] = [at |-> "loop", iteration |-> 0]]
  /\ c_state' = [c_state EXCEPT ![Slot(p)] = AtStart(c_script[p])]
  /\ UNCHANGED <<c_script, c_result>>
  /\ UNCHANGED <<rollout_vars, grader_vars, query_vars, ingest_vars, client_vars, other_vars>>

\* the model call of invocation p's next round returns or raises
RolloutModelCall(p) ==
  /\ c_pc[p].at = "loop"
  /\ LoopContinues(c_pc[p].iteration)
  /\ LET it == c_pc[p].iteration + 1
     IN  IF it <= Len(c_script[p].rounds)
         THEN /\ c_state' = [c_state EXCEPT ![Slot(p)] =
                               AfterRequest(c_state[Slot(p)], c_script[p], it)]
              /\ c_pc' = [c_pc EXCEPT ![p] = [at |-> "tools", iteration |-> it]]
              /\ UNCHANGED c_result
         ELSE /\ c_result' = [c_result EXCEPT ![p] = AtEnd(c_state[Slot(p)], c_script[p])]
              /\ c_state' = [c_state EXCEPT ![Slot(p)] =
                               Locals(c_result'[p].messages, c_result'[p].used_tools,
                                      c_state[Slot(p)].tool_sequence)]
              /\ c_pc' = [c_pc EXCEPT ![p] = [at |-> "done", iteration |-> it]]
  /\ UNCHANGED c_script
  /\ UNCHANGED <<rollout_vars, grader_vars, query_vars, ingest_vars, client_vars, other_vars>>

\* the tool call of invocation p's round is executed
RolloutToolCall(p) ==
  /\ c_pc[p].at = "tools"
  /\ c_state' = [c_state EXCEPT ![Slot(p)] =
                   AfterTool(c_state[Slot(p)], c_script[p], c_pc[p].iteration)]
  /\ c_pc' = [c_pc EXCEPT ![p] = [at |-> "loop", iteration |-> c_pc[p].iteration]]
  /\ UNCHANGED <<c_script, c_result>>
  /\ UNCHANGED <<rollout_vars, grader_vars, query_vars, ingest_vars, client_vars, other_vars>>

ConcNext ==
  \/ \E p \in Invocations : EnterRollout(p)
  \/ \E p \in Invocations : RolloutModelCall(p)
  \/ \E p \in Invocations : RolloutToolCall(p)

RECURSIVE RunAlone(_, _, _)
\* the rollout of a script run from round it on, with no other rollout
RunAlone(locals, script, it) ==
  IF it <= Len(script.rounds)
  THEN RunAlone(AfterTool(AfterRequest(locals, script, it), script, it), script, it + 1)
  ELSE AtEnd(locals, script)

(***************************************************************************)
(* train_apo.main: the optimization block and what follows it.  A template *)
(* is the sequence of the pieces of its text; an average is a level of     *)
(* 0..MaxAverage.                                                          *)
(***************************************************************************)
MaxIterations == 3

MaxAverage == 2

Averages == 0..MaxAverage

\* no template bound yet, an empty file
NoTemplate == <<>>

\* baseline_template = PromptTemplate(template=baseline_prompt, engine='f-string')
baseline_template == <<"baseline_prompt">>

VariedTemplate(template) == Append(template, "variation")

\* best_template = best_template, the update of an improving iteration
ImprovedTemplate(template) == template

TrainOff ==
  /\ t_pc = "off"
  /\ num_iterations = 0
  /\ baseline_average = 0
  /\ t_iteration = 0
  /\ best_template = NoTemplate
  /\ best_score = 0
  /\ optimized_template = NoTemplate
  /\ t_evaluated = <<>>
  /\ t_final = NoTemplate
  /\ t_file = NoTemplate
  /\ t_raised = FALSE

\* main has evaluated the baseline and is about to enter the try block
TrainInit ==
  /\ t_pc = "baseline"
  /\ num_iterations \in 1..MaxIterations
  /\ baseline_average \in Averages
  /\ t_iteration = 0
  /\ best_template = NoTemplate
  /\ best_score = 0
  /\ optimized_template = NoTemplate
  /\ t_evaluated = <<>>
  /\ t_final = NoTemplate
  /\ t_file = NoTemplate
  /\ t_raised = FALSE

\* best_template = baseline_template; best_score = baseline_train_metrics['average']
StartOptimization ==
  /\ t_pc = "baseline"
  /\ t_pc' = "optimize"
  /\ best_template' = baseline_template
  /\ best_score' = baseline_average
  /\ UNCHANGED <<num_iterations, baseline_average, t_iteration, optimized_template,
                 t_evaluated, t_final, t_file, t_raised>>
  /\ UNCHANGED <<rollout_vars, grader_vars, query_vars, ingest_vars, conc_vars,
                 client_vars, race_vars, stream_vars, graph_vars>>

\* one pass of for iteration in range(1, config.num_iterations + 1)
Iterate ==
  /\ t_pc = "optimize"
  /\ t_iteration < num_iterations
  /\ \E current_score \in Averages :
       /\ t_evaluated' = Append(t_evaluated, best_template)
       /\ IF current_score > best_score
          THEN /\ best_score' = current_score
               /\ best_template' = ImprovedTemplate(best_template)
          ELSE UNCHANGED <<best_score, best_template>>
  /\ t_iteration' = t_iteration + 1
  /\ UNCHANGED <<t_pc, num_iterations, baseline_average, optimized_template,
                 t_final, t_file, t_raised>>
  /\ UNCHANGED <<rollout_vars, grader_vars, query_vars, ingest_vars, conc_vars,
                 client_vars, race_vars, stream_vars, graph_vars>>

\* optimized_template = best_template, after the loop
OptimizationEnds ==
  /\ t_pc = "optimize"
  /\ t_iteration = num_iterations
  /\ t_pc' = "evaluate"
  /\ optimized_template' = best_template
  /\ UNCHANGED <<num_iterations, baseline_average, t_iteration, best_template,
                 best_score, t_evaluated, t_final, t_file, t_raised>>
  /\ UNCHANGED <<rollout_vars, grader_vars, query_vars, ingest_vars, conc_vars,
                 client_vars, race_vars, stream_vars, graph_vars>>

\* except Exception: optimized_template = baseline_template
OptimizationRaises ==
  /\ t_pc \in {"baseline", "optimize"}
  /\ t_pc' = "evaluate"
  /\ optimized_template' = baseline_template
  /\ t_raised' = TRUE
  /\ UNCHANGED <<num_iterations, baseline_average, t_iteration, best_template,
                 best_score, t_evaluated, t_final, t_file>>
  /\ UNCHANGED <<rollout_vars, grader_vars, query_vars, ingest_vars, conc_vars,
                 client_vars, race_vars, stream_vars, graph_vars>>

\* evaluate_prompt_performance(optimized_template, ...) on both datasets
EvaluateOptimized ==
  /\ t_pc = "evaluate"
  /\ t_pc' = "save"
  /\ t_final' = optimized_template
  /\ UNCHANGED <<num_iterations, baseline_average, t_iteration, best_template,
                 best_score, optimized_template, t_evaluated, t_file, t_raised>>
  /\ UNCHANGED <<rollout_vars, grader_vars, query_vars, ingest_vars, conc_vars,
                 client_vars, race_vars, stream_vars, graph_vars>>

\* save_optimized_prompt writes prompt_template.template to optimized_prompt.txt
SaveOptimizedPrompt ==
  /\ t_pc = "save"
  /\ t_pc' = "done"
  /\ t_file' = optimized_template
  /\ UNCHANGED <<num_iterations, baseline_average, t_iteration, best_template,
                 best_score, optimized_template, t_evaluated, t_final, t_raised>>
  /\ UNCHANGED <<rollout_vars, grader_vars, query_vars, ingest_vars, conc_vars,
                 client_vars, race_vars, stream_vars, graph_vars>>

TrainNext ==
  \/ StartOptimization
  \/ Iterate
  \/ OptimizationEnds
  \/ OptimizationRaises
  \/ EvaluateOptimized
  \/ SaveOptimizedPrompt

(***************************************************************************)
(* Two ingestion runs inside ensure_collection at once, against one store. *)
(* Each call of the store is one step; the store answers a                 *)
(* create_collection for a collection that exists with a conflict error.   *)
(***************************************************************************)
ConcurrentRuns == {1, 2}

RaceOff ==
  /\ e_pc = [p \in ConcurrentRuns |-> "off"]
  /\ e_dim = [p \in ConcurrentRuns |-> ASSUMED_SIZE]
  /\ e_listed = [p \in ConcurrentRuns |-> FALSE]
  /\ e_coll = AbsentCollection
  /\ e_before = AbsentCollection
  /\ e_creates = 0

\* both runs have entered ensure_collection
RaceInit ==
  /\ e_pc = [p \in ConcurrentRuns |-> "list"]
  /\ e_dim \in [ConcurrentRuns -> Dims]
  /\ e_listed = [p \in ConcurrentRuns |-> FALSE]
  /\ e_coll \in InitialCollections
  /\ e_before = e_coll
  /\ e_creates = 0

\* names = [collection.name for collection in client.get_collections().collections]
ListCollections(p) ==
  /\ e_pc[p] = "list"
  /\ e_listed' = [e_listed EXCEPT ![p] = CollectionListed(e_coll)]
  /\ e_pc' = [e_pc EXCEPT ![p] = IF CollectionListed(e_coll) THEN "check" ELSE "create"]
  /\ UNCHANGED <<e_dim, e_coll, e_before, e_creates>>
  /\ UNCHANGED <<rollout_vars, grader_vars, query_vars, ingest_vars, conc_vars,
                 client_vars, train_vars, stream_vars, graph_vars>>

\* the branch of a listed collection: get_collection, then the size comparison
CheckSize(p) ==
  /\ e_pc[p] = "check"
  /\ e_pc' = [e_pc EXCEPT ![p] =
               IF SizeMismatch(current_size(e_coll), e_dim[p]) THEN "ValueError" ELSE "done"]
  /\ UNCHANGED <<e_dim, e_listed, e_coll, e_before, e_creates>>
  /\ UNCHANGED <<rollout_vars, grader_vars, query_vars, ingest_vars, conc_vars,
                 client_vars, train_vars, stream_vars, graph_vars>>

\* client.create_collection(collection_name=..., vectors_config=VectorParams(size=dimension, ...))
CreateCollection(p) ==
  /\ e_pc[p] = "create"
  /\ e_creates' = e_creates + 1
  /\ IF e_coll.exists
     THEN /\ e_pc' = [e_pc EXCEPT ![p] = "conflict"]
          /\ UNCHANGED e_coll
     ELSE /\ e_pc' = [e_pc EXCEPT ![p] = "done"]
          /\ e_coll' = Collection(TRUE, TRUE, e_dim[p], <<>>)
  /\ UNCHANGED <<e_dim, e_listed, e_before>>
  /\ UNCHANGED <<rollout_vars, grader_vars, query_vars, ingest_vars, conc_vars,
                 client_vars, train_vars, stream_vars, graph_vars>>

RaceNext ==
  \E p \in ConcurrentRuns :
    \/ ListCollections(p)
    \/ CheckSize(p)
    \/ CreateCollection(p)

(***************************************************************************)
(* POST /query/stream: the events generate_stream yields.  agent.astream   *)
(* is a library: it yields chunks, then ends or raises.  A chunk is the    *)
(* messages it carries and whether it carries them under a top-level       *)
(* "messages" key.                                                         *)
(***************************************************************************)
MaxChunks == 3

\* the messages of one chunk: a tool round or the answer
ChunkMessages ==
  {<<LcMessage("ai", EmptyText, <<ToolCall(0, tool_name)>>, ""),
     LcMessage("tool", execute_tool(tool_name, backend).value, <<>>, tool_name)>> :
     tool_name \in {"rag_query", "arxiv_search"},
     backend \in {b \in Backends : ~execute_tool("rag_query", b).raised
                                   /\ ~execute_tool("arxiv_search", b).raised}}
  \cup {<<LcMessage("ai", answer, <<>>, "")>> : answer \in AgentAnswers}

\* if isinstance(chunk, dict): if "messages" in chunk: all_messages.extend(...)
collect(all_messages, keyed, chunk_messages) ==
  IF keyed THEN all_messages \o chunk_messages ELSE all_messages

FallThrough(events, rest) == events \o rest

\* yield the event, then return: nothing of the rest is reached
YieldAndReturn(events, rest) == events

\* settings = get_settings() in the last except clause makes settings a local
\* name of generate_stream, and nothing has bound it when the summary reads
\* settings.llm_provider
SettingsBound == FALSE

\* the summary: "type": "done", or the except clause's event when building
\* it raises
summary_events == IF SettingsBound THEN <<"done">> ELSE <<"error">>

\* tools_used = _extract_tools_from_messages(all_messages) if all_messages else []
stream_tools_used(all_messages) ==
  IF all_messages # <<>> THEN extract_tools_from_messages(all_messages) ELSE {}

\* rag_empty and "rag_query" in tools_used and "arxiv_search" not in tools_used
missed_arxiv_search(all_messages) ==
  /\ rag_empty_in_messages(all_messages)
  /\ "rag_query" \in stream_tools_used(all_messages)
  /\ "arxiv_search" \notin stream_tools_used(all_messages)

\* what generate_stream yields once agent.astream has ended
closing_events(all_messages) ==
  LET after_tools == IF missed_arxiv_search(all_messages)
                     THEN YieldAndReturn(<<"error">>, summary_events)
                     ELSE summary_events
  IN  IF stream_tools_used(all_messages) = {}
      THEN YieldAndReturn(<<"error">>, after_tools)
      ELSE after_tools

StreamOff ==
  /\ s_pc = "off"
  /\ s_events = <<>>
  /\ s_messages = <<>>
  /\ s_raised = FALSE

\* the response has started and agent.astream is entered
StreamInit ==
  /\ s_pc = "stream"
  /\ s_events = <<>>
  /\ s_messages = <<>>
  /\ s_raised = FALSE

\* one pass of async for chunk in agent.astream(...)
StreamChunk ==
  /\ s_pc = "stream"
  /\ Len(s_events) < MaxChunks
  /\ \E keyed \in BOOLEAN, chunk_messages \in ChunkMessages :
       s_messages' = collect(s_messages, keyed, chunk_messages)
  /\ s_events' = Append(s_events, "chunk")
  /\ UNCHANGED <<s_pc, s_raised>>
  /\ UNCHANGED <<rollout_vars, grader_vars, query_vars, ingest_vars, conc_vars,
                 client_vars, train_vars, race_vars, graph_vars>>

\* agent.astream raises: either except clause yields one error event
StreamRaises ==
  /\ s_pc = "stream"
  /\ s_raised' = TRUE
  /\ s_events' = Append(s_events, "error")
  /\ s_pc' = "closed"
  /\ UNCHANGED s_messages
  /\ UNCHANGED <<rollout_vars, grader_vars, query_vars, ingest_vars, conc_vars,
                 client_vars, train_vars, race_vars, graph_vars>>

\* agent.astream ends: the validations, then the summary
StreamEnds ==
  /\ s_pc = "stream"
  /\ s_events' = s_events \o closing_events(s_messages)
  /\ s_pc' = "closed"
  /\ UNCHANGED <<s_messages, s_raised>>
  /\ UNCHANGED <<rollout_vars, grader_vars, query_vars, ingest_vars, conc_vars,
                 client_vars, train_vars, race_vars, graph_vars>>

StreamNext == StreamChunk \/ StreamRaises \/ StreamEnds

(***************************************************************************)
(* The import of services/langchain/graph.py: _load_optimized_prompt and   *)
(* the module-level construction of graph.  A candidate file is "absent",  *)
(* "unreadable" (read_text raises), "empty" or "text".                     *)
(***************************************************************************)
Candidates == {"configured", "cwd", "project_root"}

FileStates == {"absent", "unreadable", "empty", "text"}

\* if optimized_path.exists(): try: return optimized_path.read_text(...)
\* except Exception: (a warning); "none" where the code goes on to the next
read_candidate(file) ==
  IF file = "absent" \/ file = "unreadable" THEN "none" ELSE file

\* _load_optimized_prompt: "none" for None, "empty" for the empty string
load_optimized_prompt(settings, files) ==
  LET configured == IF settings.path_set THEN read_candidate(files["configured"])
                    ELSE "none"
  IN  IF configured # "none" THEN configured
      ELSE IF read_candidate(files["cwd"]) # "none" THEN read_candidate(files["cwd"])
      ELSE read_candidate(files["project_root"])

\* def build_agent(): it has no prompt_template parameter, so
\* build_agent(prompt_template=...) raises TypeError
build_agent(with_prompt_template) ==
  IF with_prompt_template THEN "TypeError" ELSE "baseline"

GraphOff ==
  /\ l_pc = "off"
  /\ l_settings = [path_set |-> FALSE, use_optimized |-> TRUE]
  /\ l_files = [c \in Candidates |-> "absent"]
  /\ l_prompt = "none"

\* a process is about to import the module
GraphInit ==
  /\ l_pc = "import"
  /\ l_settings \in [path_set : BOOLEAN, use_optimized : BOOLEAN]
  /\ l_files \in [Candidates -> FileStates]
  /\ l_prompt = "none"

\* optimized_prompt = _load_optimized_prompt(); if optimized_prompt: ... else: ...
ImportGraph ==
  /\ l_pc = "import"
  /\ LET optimized_prompt == load_optimized_prompt(l_settings, l_files)
         built == build_agent(optimized_prompt = "text")
     IN  IF built = "TypeError"
         THEN l_pc' = "failed" /\ l_prompt' = "none"
         ELSE l_pc' = "built" /\ l_prompt' = built
  /\ UNCHANGED <<l_settings, l_files>>
  /\ UNCHANGED <<rollout_vars, grader_vars, query_vars, ingest_vars, conc_vars,
                 client_vars, train_vars, race_vars, stream_vars>>

GraphNext == ImportGraph

OthersOff == TrainOff /\ RaceOff /\ StreamOff /\ GraphOff

(***************************************************************************)
(* Specifications.                                                         *)
(***************************************************************************)
vars == <<rollout_vars, grader_vars, query_vars, ingest_vars, conc_vars, client_vars, other_vars>>

\* one rollout
Init == RolloutInit /\ GraderOff /\ QueryOff /\ IngestOff /\ ConcOff /\ ClientsOff /\ OthersOff

Next == RolloutNext

Spec == Init /\ [][Next]_vars

\* every model call and every tool call returns or raises
FairSpec == Spec /\ WF_vars(Next)

\* one application of a grader
GraderSpecInit == RolloutInit /\ GraderInit /\ QueryOff /\ IngestOff /\ ConcOff /\ ClientsOff /\ OthersOff

GraderSpec == GraderSpecInit /\ [][GraderNext]_vars

\* one POST /query request
QuerySpecInit == RolloutInit /\ GraderOff /\ QueryInit /\ IngestOff /\ ConcOff /\ ClientsOff /\ OthersOff

QuerySpec == QuerySpecInit /\ [][QueryNext]_vars

\* a process that ingests, searches and hands out clients
IngestSpecInit == RolloutInit /\ GraderOff /\ QueryOff /\ IngestInit /\ ConcOff /\ ClientsOff /\ OthersOff

IngestSpec == IngestSpecInit /\ [][IngestNext]_vars

\* two rollouts, their steps interleaved in any order
ConcSpecInit == RolloutInit /\ GraderOff /\ QueryOff /\ IngestOff /\ ConcInit /\ ClientsOff /\ OthersOff

ConcSpec == ConcSpecInit /\ [][ConcNext]_vars

\* the client factories of a process, called in any order
ClientSpec == Init /\ [][ClientNext]_vars

\* train_apo.main from the baseline evaluation on
TrainSpecInit ==
  /\ RolloutInit /\ GraderOff /\ QueryOff /\ IngestOff /\ ConcOff /\ ClientsOff
  /\ TrainInit /\ RaceOff /\ StreamOff /\ GraphOff

TrainSpec == TrainSpecInit /\ [][TrainNext]_vars

\* two runs in ensure_collection, their store calls interleaved in any order
RaceSpecInit ==
  /\ RolloutInit /\ GraderOff /\ QueryOff /\ IngestOff /\ ConcOff /\ ClientsOff
  /\ TrainOff /\ RaceInit /\ StreamOff /\ GraphOff

RaceSpec == RaceSpecInit /\ [][RaceNext]_vars

\* one POST /query/stream response
StreamSpecInit ==
  /\ RolloutInit /\ GraderOff /\ QueryOff /\ IngestOff /\ ConcOff /\ ClientsOff
  /\ TrainOff /\ RaceOff /\ StreamInit /\ GraphOff

StreamSpec == StreamSpecInit /\ [][StreamNext]_vars

\* one import of the graph module
GraphSpecInit ==
  /\ RolloutInit /\ GraderOff /\ QueryOff /\ IngestOff /\ ConcOff /\ ClientsOff
  /\ TrainOff /\ RaceOff /\ StreamOff /\ GraphInit

GraphSpec == GraphSpecInit /\ [][GraphNext]_vars

(***************************************************************************)
(* Properties of the rollout.                                              *)
(***************************************************************************)
\* the cap on model calls is never what stops a rollout
CapNotBinding == pc = "loop" => model_calls.tools < max_iterations

\* C1: every rollout terminates - it returns to its caller, by a value or by
\* the exception of a failed call - whatever the model and the tools answer,
\* also when every model response requests a tool
C1_RolloutTerminates == <>(pc = "done")

\* C1 witness: a terminated rollout in which all ten tool-enabled responses
\* requested a tool and the forced final call was made
C1_Witness ==
  /\ pc = "done"
  /\ model_calls.tools = max_iterations
  /\ model_calls.plain = 1
  /\ \A i \in DOMAIN messages :
       messages[i].role = "assistant" /\ i < Len(messages) => messages[i].tool_calls # <<>>

\* the tool-result messages that carry the id
ResultsFor(id) ==
  {k \in DOMAIN messages : messages[k].role = "tool" /\ messages[k].tool_call_id = id}

\* C2: whenever a model call is about to be issued, every tool call id that
\* an assistant message of the transcript requested has exactly one
\* tool-result message with that id, placed after the requesting message
C2_ToolCallsAnswered ==
  pc \in {"loop", "final"} =>
    \A i \in DOMAIN messages :
      messages[i].role = "assistant" =>
        \A j \in DOMAIN messages[i].tool_calls :
          /\ Cardinality(ResultsFor(messages[i].tool_calls[j].id)) = 1
          /\ \A k \in ResultsFor(messages[i].tool_calls[j].id) : k > i

\* C2 witness: a model call is about to be issued after a response that
\* requested several tools and after a later response that requested one
C2_Witness ==
  /\ pc \in {"loop", "final"}
  /\ \E i, k \in DOMAIN messages :
       /\ i < k
       /\ Len(messages[i].tool_calls) >= 2
       /\ Len(messages[k].tool_calls) >= 1

\* C3: in training_rollout a failed model call, in the loop or the final
\* forced one, makes the rollout return 0.0 without grading any response
C3_ModelFailureGivesZero ==
  (fn = "training_rollout" /\ model_failed /\ pc = "done") => (score = 0 /\ ~graded)

\* C4: a tool invoked by the loop always returns a string, it never raises
\* into the loop
C4_ToolsNeverRaise == ~tool_raised

(***************************************************************************)
(* Properties of the graders.                                              *)
(***************************************************************************)
g_messages == TranscriptOf(g_task, g_calls, g_results, g_response)

g_used_tools == UsedAfter(<<>>, CallsOf(g_calls))

g_tool_sequence == SequenceAfter(<<>>, CallsOf(g_calls))

\* C5: both graders return a score between 0.0 and 1.0
C5_ScoreInUnitInterval == g_pc = "graded" => (0 <= g_score /\ g_score <= Scale)

\* C5 witness: _calculate_reward graded a case whose additive score leaves
\* the interval, below 0.0 or above 1.0
C5_Witness ==
  /\ g_pc = "graded"
  /\ g_by = "_calculate_reward"
  /\ TextLen(g_response) > 0
  /\ IF detected_invalid(g_task.query, g_task)
     THEN InvalidQueryScore(g_response, g_used_tools) < 0
     ELSE BaseToolScore(g_used_tools) + LabelAdjustment(g_task, g_tool_sequence)
          + KeywordAdjustment(g_task.query, g_tool_sequence) + FormatScore(g_response)
          + CompletenessScore(g_response) + CitationScore(g_response) > Scale

\* C6: a gibberish (or is_invalid) query is scored 0.5 or more only if the
\* model requested no tool call at all, by either grader and whatever the
\* names of the requested tools
C6_GibberishNeedsNoTool ==
  (g_pc = "graded" /\ detected_invalid(g_task.query, g_task)) =>
    (g_score >= Pts(50) => g_calls = <<>>)

\* every tool call of the graded transcript came back with its empty sentinel
AllCallsEmpty ==
  /\ g_calls # <<>>
  /\ g_results = "empty"
  /\ \A i \in DOMAIN g_calls : g_calls[i] \in {"rag_query", "arxiv_search"}

\* the tool-usage credit and the citation/quality credit that the applied
\* grader added to the score of the graded, non-empty response
AwardedToolCredit ==
  IF g_by = "rag_response_grader" THEN ToolUsageScore(g_messages)
  ELSE IF detected_invalid(g_task.query, g_task) THEN 0
  ELSE BaseToolScore(g_used_tools)

AwardedQualityCredit ==
  IF g_by = "rag_response_grader" THEN QualityScore(g_response, g_task)
  ELSE IF detected_invalid(g_task.query, g_task) THEN 0
  ELSE CitationScore(g_response)

\* C7: when every tool call returned its empty sentinel, no tool-usage credit
\* and no citation/quality credit is awarded, and the score of a valid query
\* is the format credit plus the length credit only
C7_EmptyResultsEarnNoToolCredit ==
  (g_pc = "graded" /\ AllCallsEmpty /\ TextLen(g_response) > 0) =>
    /\ AwardedToolCredit = 0
    /\ AwardedQualityCredit = 0
    /\ ~detected_invalid(g_task.query, g_task) =>
         g_score = FormatScore(g_response) + CompletenessScore(g_response)

\* C22: for a query that is not gibberish, a transcript that called rag_query
\* exactly once and ended with an answer of more than 100 characters that
\* holds a citation-like token is scored 0.8 or more by either grader,
\* whatever else the answer holds
C22_CitedAnswerScoresHigh ==
  (/\ g_pc = "graded"
   /\ ~detected_invalid(g_task.query, g_task)
   /\ Cardinality({i \in DOMAIN g_calls : g_calls[i] = "rag_query"}) = 1
   /\ TextLen(g_response) > 100
   /\ has_citations(g_response)) =>
    g_score >= Pts(80)

\* the format credit the applied grader added to the score
AwardedFormatCredit ==
  IF TextLen(g_response) = 0 THEN 0
  ELSE IF g_by = "_calculate_reward" /\ detected_invalid(g_task.query, g_task) THEN 0
  ELSE FormatScore(g_response)

\* C24: the format credit of 0.2 is awarded only to a response that holds
\* both markers, TOOL_LOG and ANSWER:
C24_FormatCreditNeedsBothMarkers ==
  (g_pc = "graded" /\ AwardedFormatCredit = Pts(20)) =>
    /\ Contains(<<"TOOL_LOG">>, UpperSeq(g_response.atoms))
    /\ Contains(<<"ANSWER:">>, UpperSeq(g_response.atoms))

\* the first-tool adjustment taken from one source: the label of the task
\* when it has one, else the keywords of the query
OneSourceAdjustment ==
  IF g_task.intelligent_choice # NoKey THEN LabelAdjustment(g_task, g_tool_sequence)
  ELSE KeywordAdjustment(g_task.query, g_tool_sequence)

\* the score of a valid query with the first-tool adjustment of one source
OneSourceScore ==
  LET sum == BaseToolScore(g_used_tools) + OneSourceAdjustment + FormatScore(g_response)
             + CompletenessScore(g_response) + CitationScore(g_response)
  IN  Clamp(IF /\ g_task.expected_output_contains.present
               /\ FoundExpected(g_task.expected_output_contains.list, g_response) > 0
            THEN Min(Scale, sum + ExpectedBonus(g_task.expected_output_contains.list,
                                                g_response))
            ELSE sum)

\* C25: for a query that is not gibberish, the first-tool bonus or penalty of
\* _calculate_reward comes from one source only, the task's label when it
\* has one and the keywords of the query otherwise, so that the net
\* adjustment is never more than 0.15 in magnitude
C25_FirstToolAdjustmentFromOneSource ==
  (/\ g_pc = "graded"
   /\ g_by = "_calculate_reward"
   /\ TextLen(g_response) > 0
   /\ ~detected_invalid(g_task.query, g_task)) =>
    /\ g_score = OneSourceScore
    /\ OneSourceAdjustment \in {0 - Pts(15), 0 - Pts(10), 0 - Pts(5), 0,
                                Pts(5), Pts(10), Pts(15)}

(***************************************************************************)
(* Properties of POST /query.                                              *)
(***************************************************************************)
\* C8: POST /query succeeds only if the agent actually invoked a tool; an
\* answer given without any tool invocation is rejected with 400, whatever
\* the text of the question or of the answer
C8_SuccessNeedsToolInvocation ==
  (q_pc = "responded" /\ ~q_raised /\ q_invoked = {}) => q_status = 400

\* C9: after a rag_query result that carried RAG_EMPTY, POST /query succeeds
\* only if the agent actually invoked arxiv_search
C9_EmptyRagNeedsArxivSearch ==
  (q_pc = "responded" /\ q_rag_empty /\ q_status = 200) => "arxiv_search" \in q_invoked

\* C10: an exception of agent.invoke becomes one HTTP error: 502 for a
\* connection failure, else 400 for a ValueError, else 401 if it looks like
\* an authentication failure, else 502 if it looks like a 502, else 500
C10_ExceptionsBecomeHttpErrors ==
  (q_pc = "responded" /\ q_raised) =>
    LET connect == q_exc.is_connect_error
        value == ~connect /\ q_exc.is_value_error
        other == ~connect /\ ~q_exc.is_value_error
        auth == \/ q_exc.type_name = <<"AuthenticationError">>
                \/ \E i \in DOMAIN q_exc.str.atoms :
                     q_exc.str.atoms[i] \in {"401", "Unauthorized"}
        gateway == \/ q_exc.type_name = <<"InternalServerError">>
                   \/ \E i \in DOMAIN q_exc.str.atoms : q_exc.str.atoms[i] = "502"
    IN  /\ q_status \in {400, 401, 500, 502}
        /\ connect => q_status = 502
        /\ value => q_status = 400
        /\ other /\ auth => q_status = 401
        /\ other /\ ~auth /\ gateway => q_status = 502
        /\ other /\ ~auth /\ ~gateway => q_status = 500

\* C10 witness: an exception that is neither a ConnectError nor a ValueError
\* and looks both like an authentication failure and like a 502 was answered
C10_Witness ==
  /\ q_pc = "responded"
  /\ q_raised
  /\ ~q_exc.is_connect_error
  /\ ~q_exc.is_value_error
  /\ looks_like_auth(q_exc)
  /\ looks_like_502(q_exc)
  /\ q_status = 401

(***************************************************************************)
(* Properties of the bound and of the end of the tool-calling loop.        *)
(***************************************************************************)
\* the assistant messages of a transcript that request tools
RequestingRounds(msgs) ==
  Cardinality({i \in DOMAIN msgs : msgs[i].role = "assistant" /\ msgs[i].tool_calls # <<>>})

\* C19: the loop makes at most max_iterations model calls with tools, and the
\* rollout at most one more, without tools.  When every round of the loop
\* requested tools the loop exits and the rollout goes on to the call without
\* tools with the whole transcript: the exit raises nothing, the transcript
\* keeps every round, and what the rollout returns is built on it.
C19_LoopBoundedTranscriptKept ==
  /\ [](/\ model_calls.tools <= max_iterations
        /\ model_calls.plain <= 1
        /\ iteration = model_calls.tools
        /\ (pc = "final" =>
              /\ iteration = max_iterations
              /\ returned = "none"
              /\ RequestingRounds(messages) = max_iterations)
        /\ (model_calls.plain = 1 /\ returned \in {"dict", "reward"} /\ graded =>
              RequestingRounds(messages) = max_iterations))
  /\ [][pc = "final" =>
          /\ pc' = "done"
          /\ IsPrefix(messages, messages')
          /\ (returned' = "exception" => model_failed' /\ fn = "rag_agent_rollout")]_vars

\* a rollout that returned after max_iterations rounds of tool calls
C19_Witness ==
  /\ pc = "done"
  /\ fn = "rag_agent_rollout"
  /\ returned = "dict"
  /\ model_calls.tools = max_iterations
  /\ model_calls.plain = 1
  /\ RequestingRounds(messages) = max_iterations
  /\ messages[Len(messages)].role = "assistant"

\* C20: the loop ends with the first model response that requests no tool:
\* the rollout returns at once, with no further model call and no tool
\* execution, and the content of that response is the final response.
C20_ToolLessResponseEndsLoop ==
  [][/\ (pc = "loop" /\ Len(messages') = Len(messages) + 1
          /\ messages'[Len(messages')].tool_calls = <<>> =>
            /\ pc' = "done"
            /\ returned' \in {"dict", "reward"}
            /\ final_response' = messages'[Len(messages')].content
            /\ model_calls'.tools = model_calls.tools + 1
            /\ model_calls'.plain = 0)
     /\ (pc = "done" => messages' = messages /\ model_calls' = model_calls)]_vars

\* a rollout that answered after a round of tool calls, before the bound
C20_Witness ==
  /\ pc = "done"
  /\ returned \in {"dict", "reward"}
  /\ model_calls.plain = 0
  /\ model_calls.tools = 2
  /\ final_response # EmptyText
  /\ final_response = messages[Len(messages)].content
  /\ messages[Len(messages)].role = "assistant"

\* C21 as stated: the call without tools is issued when the model's last
\* turn requested a tool while the budget of max_iterations rounds was not
\* yet exhausted, so that it occurs in rollouts of fewer rounds.
C21_FinalCallBeforeBudgetExhausted ==
  pc = "final" => iteration < max_iterations

\* C21, amended: the call without tools is issued at most once, and exactly
\* when the last message after the loop is a tool result; that is the case
\* exactly when the loop ran all max_iterations rounds and the last of them
\* requested tools.  A rollout that ends in fewer rounds ends with a response
\* without tool calls and makes no such call.
C21_FinalCallOnlyAfterLastRound ==
  /\ [](/\ model_calls.plain <= 1
        /\ (pc = "final" =>
              /\ model_calls.plain = 0
              /\ messages[Len(messages)].role = "tool"
              /\ iteration = max_iterations)
        /\ (model_calls.plain = 1 => pc = "done" /\ iteration = max_iterations)
        /\ (pc = "done" /\ model_calls.plain = 0 /\ messages # <<>>
              /\ ~model_failed /\ ~tool_raised =>
              messages[Len(messages)].role = "assistant"))
  /\ [][/\ (pc = "final" => model_calls'.plain = 1 /\ model_calls'.tools = model_calls.tools)
        /\ (pc' = "final" /\ pc # "final" => messages'[Len(messages')].role = "tool")
        /\ (pc \in {"loop", "tools"} /\ pc' = "done" /\ ~model_failed' /\ ~tool_raised' =>
              messages'[Len(messages')].role = "assistant")
        /\ (pc = "tools" /\ pc' = "loop" => iteration < max_iterations)]_vars

\* the call without tools was made after the last round's tool result
C21_Witness ==
  /\ pc = "done"
  /\ model_calls.plain = 1
  /\ ~model_failed
  /\ fn = "training_rollout"
  /\ messages[Len(messages)].role = "tool"

(***************************************************************************)
(* Properties of ingestion.                                                *)
(***************************************************************************)
\* C11: in one ingestion run the fetch of the feed is attempted at most
\* three times: the run goes on with the documents of the first attempt that
\* returns, and load_documents fails only after three failed attempts in a
\* row.  No other step is retried: ensure_collection, its probe, the creation
\* of the collection, upsert_documents and the write to the store happen at
\* most once, and a document is embedded at most once.
C11_OnlyFetchIsRetried ==
  /\ i_calls.fetch <= stop_after_attempt
  /\ i_calls.loaded <= 1
  /\ (i_calls.loaded = 1 => i_pc # "fetch")
  /\ (i_pc = "fetch" => i_calls.fetch < stop_after_attempt)
  /\ (i_result = "RetryError" =>
        i_calls.fetch = stop_after_attempt /\ i_calls.loaded = 0)
  /\ i_calls.ensure <= 1
  /\ i_calls.probe <= 1
  /\ i_calls.create <= 1
  /\ i_calls.upsert <= 1
  /\ i_calls.write <= 1
  /\ i_calls.embed <= Len(i_docs)

\* a run whose third attempt returned documents, all of them stored
C11_Witness ==
  /\ i_result = "ok"
  /\ i_calls.fetch = stop_after_attempt
  /\ i_calls.embed = MaxDocs

\* the collection exists with a vector size other than the embedding dimension
Mismatched(c, dim) == c.exists /\ (IF c.has_vectors THEN c.size ELSE ASSUMED_SIZE) # dim

\* C12: when the collection exists with a vector size that differs from the
\* embedding dimension, the run ends at its single call of ensure_collection:
\* with the configuration error (or the failure of the store or of the
\* probe), without a retry, without a fetch of the feed and without a write.
C12_MismatchEndsTheRun ==
  /\ [](i_result = "ValueError" =>
          /\ i_pc = "idle"
          /\ i_calls.ensure = 1
          /\ i_calls.probe = 1
          /\ i_calls.create = 0
          /\ i_calls.fetch = 0
          /\ i_calls.upsert = 0
          /\ i_calls.write = 0
          /\ coll = i_before)
  /\ [][(i_pc = "ensure" /\ Mismatched(coll, i_dim)) =>
          /\ i_pc' = "idle"
          /\ i_result' \in {"ValueError", "error"}
          /\ i_calls'.ensure = 1
          /\ coll' = coll]_vars

\* a collection filled by a process with another embedding model refuses the run
C12_Witness ==
  /\ i_result = "ValueError"
  /\ coll.points # <<>>
  /\ coll.size # i_dim

\* C13: ensure_collection with its probe is idempotent.  A collection of the
\* right size is never created again or altered; an absent collection is
\* created once, empty and with the probed dimension; a collection of another
\* size makes the call raise.  A second call after one that returned changes
\* nothing and creates nothing.
C13_EnsureCollectionIdempotent ==
  /\ [](LET first == ensure_collection(coll, i_dim, "ok")
            second == ensure_collection(first.coll, i_dim, "ok")
        IN  /\ (first.raised = "none") = ~Mismatched(coll, i_dim)
            /\ first.raised = "none" =>
                 /\ second.raised = "none"
                 /\ second.coll = first.coll
                 /\ second.creates = 0)
  /\ [][i_pc = "ensure" =>
          /\ (coll.exists => coll' = coll /\ i_calls'.create = 0)
          /\ (coll.exists /\ ~Mismatched(coll, i_dim) =>
                i_result' \in {"none", "error"})
          /\ (Mismatched(coll, i_dim) => i_result' \in {"ValueError", "error"})
          /\ (~coll.exists =>
                /\ i_calls'.create <= 1
                /\ (i_pc' = "fetch" =>
                      /\ coll' = Collection(TRUE, TRUE, i_dim, <<>>)
                      /\ i_calls'.create = 1)
                /\ (i_pc' # "fetch" => coll' = coll))]_vars

\* the second run of a process that created the collection in its first run
C13_Witness ==
  /\ i_runs = MaxRuns
  /\ i_restarts = 0
  /\ i_pc = "fetch"
  /\ i_calls.create = 0
  /\ coll.points # <<>>
  /\ coll.size = i_dim

\* the rendering of a stored document
Rendering(document) ==
  <<"[DB: ", document.metadata.title, "] (">> \o document.metadata.source
    \o <<")\n", document.page_content>>

C15_VectorsHaveCollectionSize ==
  \A i \in DOMAIN coll.points :
    coll.points[i].vector_len = (IF coll.has_vectors THEN coll.size ELSE ASSUMED_SIZE)

\* points in a collection without vectors configuration, after a run of a
\* process with another embedding model was refused
C15_Witness ==
  /\ ~coll.has_vectors
  /\ coll.points # <<>>
  /\ i_dim # ASSUMED_SIZE
  /\ i_result = "ValueError"

\* C16: upsert_documents only inserts.  A call with n documents adds n points
\* under ids that no stored point has, in the order of the documents, and
\* returns n; the points stored before stay as they are.  Without documents
\* nothing is embedded or written and 0 is returned.
C16_UpsertOnlyInserts ==
  /\ \A i, j \in DOMAIN coll.points : coll.points[i].id = coll.points[j].id => i = j
  /\ IsPrefix(i_before.points, coll.points)
  /\ (i_result = "ok" =>
        /\ Len(i_docs) > 0
        /\ i_returned = Len(i_docs)
        /\ Len(coll.points) = Len(i_before.points) + Len(i_docs)
        /\ \A k \in DOMAIN i_docs :
             coll.points[Len(i_before.points) + k].origin = i_docs[k])
  /\ (i_result # "ok" => coll.points = i_before.points /\ i_returned = 0)
  /\ \A backend \in UpsertBackends :
       upsert_documents(coll, <<>>, i_dim, next_uuid, backend)
         = UpsertResult(FALSE, coll, 0, 0, 0)

\* the same document stored by two runs is two points
C16_Witness ==
  /\ i_result = "ok"
  /\ i_returned = MaxDocs
  /\ \E i, j \in DOMAIN coll.points :
       /\ i <= Len(i_before.points)
       /\ j > Len(i_before.points)
       /\ coll.points[i].payload = coll.points[j].payload
       /\ coll.points[i].id # coll.points[j].id

(***************************************************************************)
(* Properties of the client factories.                                     *)
(***************************************************************************)
\* C18: each of get_openai_client, get_embeddings and get_qdrant_client is a
\* cached singleton: in one process it constructs its client at most once,
\* and every call returns that one instance.
C18_FactoriesAreSingletons ==
  \A factory \in Factories :
    /\ clients[factory].constructed <= 1
    /\ Cardinality(clients[factory].handed) <= 1

(***************************************************************************)
(* Properties of rollouts that run at the same time.                       *)
(***************************************************************************)
\* C17: when two rollouts run at the same time, in any interleaving of their
\* model calls and tool calls, each one's transcript, record of used tools
\* and result are the ones it has when it runs alone.
C17_ConcurrentRolloutsIsolated ==
  \A p \in Invocations :
    /\ (c_pc[p].at = "done" => c_result[p] = RunAlone(AtStart(c_script[p]), c_script[p], 1))
    /\ (c_pc[p].at = "tools" =>
          /\ c_state[p].messages # <<>>
          /\ c_state[p].messages[Len(c_state[p].messages)].tool_calls
               = <<ToolCall(c_pc[p].iteration, c_script[p].rounds[c_pc[p].iteration].name)>>)

\* both rollouts returned, after different rounds of tool calls
C17_Witness ==
  /\ \A p \in Invocations : c_pc[p].at = "done" /\ c_result[p].returned \in {"dict", "reward"}
  /\ Len(c_script[1].rounds) = MaxConcRounds
  /\ c_script[1].rounds # c_script[2].rounds
  /\ c_script[2].rounds # <<>>
  /\ c_result[1].messages # c_result[2].messages

C26_CreationAttemptedOnce ==
  ~e_before.exists =>
    /\ e_creates <= 1
    /\ \A p \in ConcurrentRuns : e_pc[p] \notin {"ValueError", "conflict"}

C28_IngestedWithinMaxDocs ==
  (i_entry = "run_ingestion" /\ i_requested.given) =>
    /\ i_returned <= i_requested.value
    /\ Len(coll.points) - Len(i_before.points) <= i_requested.value

\* C29: the tools keep the bounds the baseline prompt advertises for them:
\* rag_query returns at most 3 chunks of at most 1000 characters each, and
\* arxiv_search at most 3 papers by default with summaries of at most 400
\* characters.  Stated here for the first bound: what one rag_query call
\* renders is at most the 3 advertised chunks.
C29_ToolsKeepAdvertisedBounds == Len(i_rendered) <= advertised_chunks

(***************************************************************************)
(* Properties of the graph module.                                         *)
(***************************************************************************)
\* C30: the graph is built with the optimized prompt exactly when
\* apo_use_optimized_prompt is true and an optimized prompt file is found
\* (the configured path, then optimized_prompt.txt in the current directory,
\* then in the project root), with the baseline prompt otherwise, and in
\* every case a graph is built.
C30_OptimizedPromptWhenEnabledAndFound ==
  LET found == \/ l_settings.path_set /\ l_files["configured"] # "absent"
               \/ l_files["cwd"] # "absent"
               \/ l_files["project_root"] # "absent"
  IN  l_pc \notin {"off", "import"} =>
        /\ l_pc = "built"
        /\ l_prompt = (IF l_settings.use_optimized /\ found THEN "optimized" ELSE "baseline")

====
